---- MODULE Spec2Model ----
(***************************************************************************)
(* A model of the layout core of spadefmt: the cost monoid and the measure *)
(* algebra of the pretty_expressive crate, its interning arena and         *)
(* memoised measurer, spadefmt's own document store with the try/catch     *)
(* resolver and the renderer of resolved documents, and the commitable     *)
(* format stream the source renderer writes to.                            *)
(*                                                                         *)
(* Each subsystem has its own specification (SpecCost, SpecMerge, ...).    *)
(* The variables of the other subsystems are parked at an idle value and   *)
(* left unchanged.                                                         *)
(***************************************************************************)
EXTENDS Integers, Sequences, FiniteSets, TLC

VARIABLES
    cost_a, cost_b, cost_c, cmp_out,          \* cost.rs: three costs and the orderings computed on them
    ms_a, ms_b, merged, dom,                  \* resolve.rs: two measure sets, their merge, head dominance
    merged_swapped,                           \* and their merge with the operands exchanged
    store, resolved, printed,                 \* document.rs, resolve_try_catch.rs: the document store, the
                                              \* last resolver run and the rendering of its result
    document_context, config, measures,       \* interned_map.rs, resolve.rs: the arena, the printing
    calls, measure_out,                       \* config, the memo table, the measurer's calls and last answer
    resolve_out,                              \* resolve.rs: the last answer of resolve_document
    add_log,                                  \* history: the add calls made on the two arenas
    split_in, split_out,                      \* cost.rs: a text cut in two, and for_text of the whole and the parts
    runs,                                     \* resolve_try_catch.rs: resolver runs made on one store
    stream, inner,                            \* format_stream.rs: the commitable stream and the stream it wraps
    stream_out,                               \* format_stream.rs, render.rs: the last call on the stream
    hist                                      \* history: the marks issued and the characters written

costVars  == <<cost_a, cost_b, cost_c, cmp_out>>
mergeVars == <<ms_a, ms_b, merged, dom, merged_swapped>>
tryVars   == <<store, resolved, printed>>
measureVars == <<document_context, config, measures, calls, measure_out, resolve_out>>
splitVars == <<split_in, split_out>>
streamVars == <<stream, inner, stream_out, hist>>
vars      == <<costVars, mergeVars, tryVars, measureVars, add_log, splitVars, runs, streamVars>>

\* What an action of one subsystem leaves alone.
notCost    == <<mergeVars, tryVars, measureVars, add_log, splitVars, runs, streamVars>>
notMerge   == <<costVars, tryVars, measureVars, add_log, splitVars, runs, streamVars>>
notTry     == <<costVars, mergeVars, measureVars, add_log, splitVars, runs, streamVars>>
notMeasure == <<costVars, mergeVars, tryVars, add_log, splitVars, runs, streamVars>>
notArena   == <<costVars, mergeVars, resolved, printed, config, measures, calls, measure_out,
                resolve_out, splitVars, runs, streamVars>>
notSplit   == <<costVars, mergeVars, tryVars, measureVars, add_log, runs, streamVars>>
notStream  == <<costVars, mergeVars, tryVars, measureVars, add_log, splitVars, runs>>

\* Option<T>: None is the empty sequence, Some(x) the sequence holding x.
None == <<>>
Some(x) == <<x>>
TheSome(o) == o[1]

(***************************************************************************)
(* Bounds of the model.                                                    *)
(***************************************************************************)
MaxOverflow      == 2   \* Example3_5 overflow component ranges over 0..MaxOverflow
MaxHeight        == 2   \* Example3_5 height component ranges over 0..MaxHeight
MaxLastLineWidth == 3   \* last_line_width of the measures given to merge_with
MaxCostValue     == 3   \* cost of the measures given to merge_with
MaxSetLen        == 2   \* length of the clean measure sets given to merge_with
MaxDocs          == 4   \* the builder stops adding once the store holds MaxDocs documents
MaxTextLen       == 2   \* texts are 1..MaxTextLen characters long
MaxChildren      == 2   \* a List built by the builder has 0..MaxChildren children
MaxWidthLimit    == 2   \* max_width ranges over 1..MaxWidthLimit
MaxPeDocs        == 3   \* documents interned in the arena before the measurer runs
MaxColumn        == 1   \* a measuring call starts at column 0..MaxColumn
MaxIndent        == 2   \* and at current_indent 0..MaxIndent
MaxMeasureCalls  == 2   \* measuring calls made on one memo table
MaxAdds          == 4   \* add calls made on the two arenas together
MaxIndentUnit    == 1   \* the writer's indent width ranges over 1..MaxIndentUnit
MaxWrites        == 1   \* a failing writer accepts 0..MaxWrites writes first
MaxRuns          == 2   \* resolver runs made on one store
MaxSplit         == 3   \* for_text splitting: column, both lengths and max_width range over 0..MaxSplit
MaxStreamOps     == 4   \* calls made on one CommitableFormatStream
MaxMarks         == 2   \* marks outstanding on it at one time
MaxClosureLen    == 2   \* calls in a closure given to try_commit
MaxFailOn        == 1   \* the wrapped stream fails no write, or write 1..MaxFailOn
MaxEmits         == 3   \* provided methods of FormatStream called on one stream

(***************************************************************************)
(* cost.rs: Example3_5(overflow, height), a tuple struct of two usize.     *)
(***************************************************************************)
Example3_5(o, h) == <<o, h>>

usize_cmp(x, y) == IF x < y THEN "Less" ELSE IF x = y THEN "Equal" ELSE "Greater"

\* std::cmp::Ordering::then
Ordering_then(first, second) == IF first = "Equal" THEN second ELSE first

\* impl Ord for Example3_5: o_a.cmp(h_a).then(o_b.cmp(h_b))
Example3_5_cmp(self, other) ==
    Ordering_then(usize_cmp(self[1], self[2]), usize_cmp(other[1], other[2]))

\* impl PartialOrd: partial_cmp = Some(cmp); a <= b is "partial_cmp is Less or Equal"
Example3_5_le(a, b) == Example3_5_cmp(a, b) \in {"Less", "Equal"}

\* impl Add for Example3_5
Example3_5_add(self, rhs) == Example3_5(self[1] + rhs[1], self[2] + rhs[2])

Max(x, y) == IF x >= y THEN x ELSE y

\* A plausible variant of for_text: the overflow already present at the
\* starting column is left out of the cost.
Example3_5_for_text_ignores_start(column, length, max_width) ==
    IF column + length > max_width
    THEN LET b == column + length - Max(max_width, column)
         IN  Example3_5(b * b, 0)
    ELSE Example3_5(0, 0)

\* impl Cost for Example3_5: for_text
Example3_5_for_text(column, length, max_width) ==
    IF column + length > max_width
    THEN LET a == Max(max_width, column) - max_width
             b == column + length - Max(max_width, column)
         IN  Example3_5(b * (2 * a + b), 0)
    ELSE Example3_5(0, 0)

NEWLINE_COST == Example3_5(0, 1)

Costs == (0..MaxOverflow) \X (0..MaxHeight)

(***************************************************************************)
(* resolve.rs: Measure<C> and MeasureSet<C>.  The measure algebra is       *)
(* generic in the cost C: Cost; here C is a totally ordered cost, the      *)
(* naturals 0..MaxCostValue under <=, as the trait's Ord bound demands.    *)
(***************************************************************************)
Cost_le(a, b) == a <= b

Measure(w, c, d) == [last_line_width |-> w, cost |-> c, document |-> d]

\* A plausible variant of dominates: dominance with one inequality strict.
dominates_strict(self, other) ==
    /\ self.last_line_width <= other.last_line_width
    /\ Cost_le(self.cost, other.cost)
    /\ (self.last_line_width < other.last_line_width \/ ~Cost_le(other.cost, self.cost))

\* Measure::dominates
dominates(self, other) ==
    /\ self.last_line_width <= other.last_line_width
    /\ Cost_le(self.cost, other.cost)

\* enum MeasureSet: Set(Vec<Measure>) | Tainted(Measure); ms holds the vector
\* (of length one for Tainted).
SetOf(ms)     == [tag |-> "Set", ms |-> ms]
TaintedOf(m)  == [tag |-> "Tainted", ms |-> <<m>>]

RECURSIVE merge_loop_wrong_side(_, _, _)
\* A plausible variant of the loop: when no head dominates, emit the head with
\* the smaller last_line_width.
merge_loop_wrong_side(a, b, acc) ==
    IF a = <<>> \/ b = <<>> THEN acc \o a \o b
    ELSE IF dominates(Head(a), Head(b)) THEN merge_loop_wrong_side(Tail(a), b, acc)
    ELSE IF dominates(Head(b), Head(a)) THEN merge_loop_wrong_side(a, Tail(b), acc)
    ELSE IF Head(a).last_line_width < Head(b).last_line_width
         THEN merge_loop_wrong_side(Tail(a), b, Append(acc, Head(a)))
         ELSE merge_loop_wrong_side(a, Tail(b), Append(acc, Head(b)))

RECURSIVE merge_loop_one_sided(_, _, _)
\* A plausible variant of the loop: a dominated head of the first operand is
\* dropped, a dominated head of the second operand is kept.
merge_loop_one_sided(a, b, acc) ==
    IF a = <<>> \/ b = <<>> THEN acc \o a \o b
    ELSE IF dominates(Head(b), Head(a)) THEN merge_loop_one_sided(Tail(a), b, acc)
    ELSE IF Head(a).last_line_width > Head(b).last_line_width
         THEN merge_loop_one_sided(Tail(a), b, Append(acc, Head(a)))
         ELSE merge_loop_one_sided(a, Tail(b), Append(acc, Head(b)))

RECURSIVE merge_loop(_, _, _)
\* MeasureSet::merge_with, the (Set(a), Set(b)) arm: the while loop over the two
\* peekable iterators, then merged.extend(a); merged.extend(b).
merge_loop(a, b, acc) ==
    IF a = <<>> \/ b = <<>> THEN acc \o a \o b
    ELSE IF dominates(Head(a), Head(b)) THEN merge_loop(Tail(a), b, acc)
    ELSE IF dominates(Head(b), Head(a)) THEN merge_loop(a, Tail(b), acc)
    ELSE IF Head(a).last_line_width > Head(b).last_line_width
         THEN merge_loop(Tail(a), b, Append(acc, Head(a)))
         ELSE merge_loop(a, Tail(b), Append(acc, Head(b)))

\* A plausible variant of merge_with: two tainted sets merge to the second.
merge_with_keep_other(self, other) ==
    IF other.tag = "Tainted" THEN (IF self.tag = "Tainted" THEN other ELSE self)
    ELSE IF self.tag = "Tainted" THEN other
    ELSE SetOf(merge_loop(self.ms, other.ms, <<>>))

\* MeasureSet::merge_with
merge_with(self, other) ==
    IF other.tag = "Tainted" THEN self
    ELSE IF self.tag = "Tainted" THEN other
    ELSE SetOf(merge_loop(self.ms, other.ms, <<>>))

\* The invariant documented on MeasureSet::Set: strictly decreasing in
\* last_line_width and Pareto-optimal (so strictly increasing in cost).
IsClean(ms) ==
    \A i \in 1..(Len(ms) - 1) :
        /\ ms[i].last_line_width > ms[i + 1].last_line_width
        /\ Cost_le(ms[i].cost, ms[i + 1].cost) /\ ms[i].cost # ms[i + 1].cost

MeasuresOf(doc) ==
    { Measure(w, c, doc) : w \in 0..MaxLastLineWidth, c \in 0..MaxCostValue }

CleanSets(doc) ==
    UNION { { s \in [1..n -> MeasuresOf(doc)] : IsClean(s) } : n \in 1..MaxSetLen }

\* The measure sets a caller can hand to merge_with: non-empty clean sets and
\* tainted singletons.  The measures of one operand share a document key.
MeasureSets(doc) ==
    { SetOf(s) : s \in CleanSets(doc) } \cup { TaintedOf(m) : m \in MeasuresOf(doc) }

(***************************************************************************)
(* SpecCost: three costs, and the orderings cmp computes on them.          *)
(***************************************************************************)
CostIdle == cost_a = None /\ cost_b = None /\ cost_c = None /\ cmp_out = None

CostInit ==
    /\ cost_a \in Costs
    /\ cost_b \in Costs
    /\ cost_c \in Costs
    /\ cmp_out = None

Compare ==
    /\ cmp_out = None
    /\ cmp_out' = Some([ aa |-> Example3_5_cmp(cost_a, cost_a),
                    ab |-> Example3_5_cmp(cost_a, cost_b),
                    ba |-> Example3_5_cmp(cost_b, cost_a),
                    bc |-> Example3_5_cmp(cost_b, cost_c),
                    ac |-> Example3_5_cmp(cost_a, cost_c),
                    le_ab |-> Example3_5_le(cost_a, cost_b),
                    le_bc |-> Example3_5_le(cost_b, cost_c),
                    le_ac |-> Example3_5_le(cost_a, cost_c),
                    le_ba |-> Example3_5_le(cost_b, cost_a) ])
    /\ UNCHANGED <<cost_a, cost_b, cost_c>>
    /\ UNCHANGED notCost

(***************************************************************************)
(* SpecSplit: a text of length + rest characters starting at a column, and *)
(* for_text of the whole text and of its two parts.                        *)
(***************************************************************************)
SplitIdle == split_in = None /\ split_out = None

SplitInit ==
    /\ split_in \in { [column |-> c, length |-> l, rest |-> r, max_width |-> w] :
                         c \in 0..MaxSplit, l \in 0..MaxSplit,
                         r \in 0..MaxSplit, w \in 0..MaxSplit }
    /\ split_out = None

\* C::for_text on the whole text, on its first length characters and on the
\* rest, and the sum of the two parts
ForText ==
    /\ split_out = None
    /\ LET i == split_in
           first == Example3_5_for_text(i.column, i.length, i.max_width)
           second == Example3_5_for_text(i.column + i.length, i.rest, i.max_width)
       IN  split_out' = Some([whole |-> Example3_5_for_text(i.column, i.length + i.rest,
                                                            i.max_width),
                              first |-> first, second |-> second,
                              sum |-> Example3_5_add(first, second)])
    /\ UNCHANGED split_in
    /\ UNCHANGED notSplit

(***************************************************************************)
(* SpecMerge: two measure sets, merge_with and dominates applied to them.  *)
(***************************************************************************)
MergeIdle ==
    /\ ms_a = None /\ ms_b = None /\ merged = None /\ dom = None
    /\ merged_swapped = None

MergeInit ==
    /\ ms_a \in MeasureSets(1)
    /\ ms_b \in MeasureSets(2)
    /\ merged = None
    /\ dom = None
    /\ merged_swapped = None

Merge ==
    /\ merged = None
    /\ merged' = Some(merge_with(ms_a, ms_b))
    /\ UNCHANGED <<ms_a, ms_b, dom, merged_swapped>>
    /\ UNCHANGED notMerge

Dominates ==
    /\ dom = None
    /\ dom' = Some([ ab |-> dominates(Head(ms_a.ms), Head(ms_b.ms)),
                ba |-> dominates(Head(ms_b.ms), Head(ms_a.ms)),
                aa |-> dominates(Head(ms_a.ms), Head(ms_a.ms)) ])
    /\ UNCHANGED <<ms_a, ms_b, merged, merged_swapped>>
    /\ UNCHANGED notMerge

\* other.merge_with(self): the same two sets, the operands exchanged
MergeSwapped ==
    /\ merged_swapped = None
    /\ merged_swapped' = Some(merge_with(ms_b, ms_a))
    /\ UNCHANGED <<ms_a, ms_b, merged, dom>>
    /\ UNCHANGED notMerge


(***************************************************************************)
(* document.rs: Document, DocumentIdx and InternedDocumentStore.           *)
(* A DocumentIdx is the zero-based position in the documents vector.       *)
(***************************************************************************)
Newline            == [kind |-> "Newline"]
Text(text)         == [kind |-> "Text", text |-> text]
Nest(body, by)     == [kind |-> "Nest", body |-> body, by |-> by]
Flatten(body)      == [kind |-> "Flatten", body |-> body]
List(children)     == [kind |-> "List", children |-> children]
TryCatch(try_body, catch_body) ==
    [kind |-> "TryCatch", try_body |-> try_body, catch_body |-> catch_body]

\* InternedDocumentStore::default().  issued is a history variable: every
\* <<document, key>> pair that add has returned.
EmptyStore == [documents |-> <<>>, inverse |-> <<>>, issued |-> {}]

\* InternedDocumentStore::get
StoreGet(st, idx) == st.documents[idx + 1]

\* A plausible variant of add: the new key is taken after the push without
\* the "- 1", so it names the slot after the document.
StoreAdd_off_by_one(st, document) ==
    IF document \in DOMAIN st.inverse
    THEN [store |-> [st EXCEPT !.issued = @ \cup {<<document, st.inverse[document]>>}],
          idx |-> st.inverse[document]]
    ELSE LET documents == Append(st.documents, document)
             new_idx == Len(documents)
         IN  [store |-> [documents |-> documents,
                         inverse |-> (document :> new_idx) @@ st.inverse,
                         issued |-> st.issued \cup {<<document, new_idx>>}],
              idx |-> new_idx]

\* A plausible variant of add: the new document is put at the front of the
\* vector and gets key 0.
StoreAdd_inserts_first(st, document) ==
    IF document \in DOMAIN st.inverse
    THEN [store |-> [st EXCEPT !.issued = @ \cup {<<document, st.inverse[document]>>}],
          idx |-> st.inverse[document]]
    ELSE [store |-> [documents |-> <<document>> \o st.documents,
                     inverse |-> (document :> 0) @@ st.inverse,
                     issued |-> st.issued \cup {<<document, 0>>}],
          idx |-> 0]

\* A plausible variant of add: the inverse map is not consulted, every document
\* is pushed.
StoreAdd_always_pushes(st, document) ==
    LET documents == Append(st.documents, document)
        new_idx == Len(documents) - 1
    IN  [store |-> [documents |-> documents,
                    inverse |-> (document :> new_idx) @@ st.inverse,
                    issued |-> st.issued \cup {<<document, new_idx>>}],
         idx |-> new_idx]

\* InternedDocumentStore::add: the key of an equal document already stored, or
\* the document pushed and its new key.
StoreAdd(st, document) ==
    IF document \in DOMAIN st.inverse
    THEN [store |-> [st EXCEPT !.issued = @ \cup {<<document, st.inverse[document]>>}],
          idx |-> st.inverse[document]]
    ELSE LET documents == Append(st.documents, document)
             new_idx == Len(documents) - 1
         IN  [store |-> [documents |-> documents,
                         inverse |-> (document :> new_idx) @@ st.inverse,
                         issued |-> st.issued \cup {<<document, new_idx>>}],
              idx |-> new_idx]

(***************************************************************************)
(* resolve_try_catch.rs: PrintingContext.  usize arithmetic wraps modulo   *)
(* UsizeModulus, a scaled-down 2^64 (TLC's integers are 32 bits wide).     *)
(***************************************************************************)
UsizeModulus == 2^16

\* PrintingContext::new
PrintingContext_new(max_width) ==
    [max_width |-> max_width, column |-> 0, current_indent |-> 0,
     flatten |-> FALSE, trying |-> FALSE, tainted |-> FALSE]

\* PrintingContext::newline
PrintingContext_newline(self) ==
    LET column == IF self.flatten THEN (self.column + 1) % UsizeModulus
                                  ELSE self.current_indent
    IN  [self EXCEPT !.column = column,
                     !.tainted = IF column > self.max_width THEN TRUE ELSE @]

\* PrintingContext::indent: (current_indent as isize + by) as usize
PrintingContext_indent(self, by) ==
    [self EXCEPT !.current_indent = (self.current_indent + by) % UsizeModulus]

\* PrintingContext::push
PrintingContext_push(self, length) ==
    LET column == (self.column + length) % UsizeModulus
    IN  [self EXCEPT !.column = column,
                     !.tainted = IF column > self.max_width THEN TRUE ELSE @]

\* PrintingContext::set_flattened
PrintingContext_set_flattened(self) == [self EXCEPT !.flatten = TRUE]

(***************************************************************************)
(* resolve_try_catch.rs: resolve_try_catch.  A call returns the store as   *)
(* it leaves it, the returned index, the context as it leaves it, and a    *)
(* history of the decisions taken at the TryCatch nodes met outside any    *)
(* try scope (the try body, the context at the node, the branch taken) and *)
(* of the Nest nodes walked (the increment, the context at the node and    *)
(* the context the body is walked in), of the walks of a try body and of a *)
(* catch body (the TryCatch node and the context the walk starts from),    *)
(* and of the return of every call (the index and the context it was given *)
(* and the index and the context it returns).                              *)
(***************************************************************************)
Walked(st, idx, context, log) ==
    [store |-> st, idx |-> idx, context |-> context, log |-> log]

RECURSIVE resolve_try_catch(_, _, _, _)

\* The Newline arm
NewlineArm(st, idx, context, log) ==
    Walked(st, idx, PrintingContext_newline(context), log)

\* The Text arm
TextArm(st, idx, text, context, log) ==
    Walked(st, idx, PrintingContext_push(context, Len(text)), log)

NestWalked(by, context, body_context) ==
    [kind |-> "Nest", by |-> by, context |-> context, body_context |-> body_context]

\* The Nest arm
NestArm(st, idx, body_idx, by, context, log) ==
    LET body_context == PrintingContext_indent(context, by)
        r == resolve_try_catch(st, body_idx, body_context,
                               Append(log, NestWalked(by, context, body_context)))
        a == StoreAdd(r.store, Nest(r.idx, by))
    IN  Walked(a.store, a.idx, PrintingContext_indent(r.context, -by), r.log)

\* A plausible variant of the Flatten arm: the context stays flattened.
FlattenArm_stays_flattened(st, body_idx, context, log) ==
    LET r == resolve_try_catch(st, body_idx, PrintingContext_set_flattened(context), log)
        a == StoreAdd(r.store, Flatten(r.idx))
    IN  Walked(a.store, a.idx, r.context, r.log)

\* The Flatten arm
FlattenArm(st, body_idx, context, log) ==
    LET r == resolve_try_catch(st, body_idx, PrintingContext_set_flattened(context), log)
        a == StoreAdd(r.store, Flatten(r.idx))
    IN  Walked(a.store, a.idx, [r.context EXCEPT !.flatten = context.flatten], r.log)

RECURSIVE resolve_children(_, _, _, _, _)
\* The List arm's map over the children, left to right
resolve_children(st, children, context, log, new_children) ==
    IF children = <<>> THEN Walked(st, new_children, context, log)
    ELSE LET r == resolve_try_catch(st, Head(children), context, log)
         IN  resolve_children(r.store, Tail(children), r.context, r.log,
                              Append(new_children, r.idx))

\* The List arm
ListArm(st, children, context, log) ==
    LET r == resolve_children(st, children, context, log, <<>>)
        a == StoreAdd(r.store, List(r.idx))
    IN  Walked(a.store, a.idx, r.context, r.log)

Decision(try_body_idx, context, chose_catch) ==
    [kind |-> "TryCatch", try_body |-> try_body_idx, context |-> context,
     chose_catch |-> chose_catch]

TryWalked(idx, context) == [kind |-> "TryWalked", node |-> idx, context |-> context]

CatchWalked(idx, context) == [kind |-> "CatchWalked", node |-> idx, context |-> context]

Returned(idx, context, new_idx, new_context) ==
    [kind |-> "Returned", idx |-> idx, context |-> context, new_idx |-> new_idx,
     new_context |-> new_context]

\* A plausible variant of the TryCatch arm: when the try branch is kept, the
\* TryCatch node itself is returned.
TryCatchArm_keeps_node(st, idx, try_body_idx, catch_body_idx, context, log) ==
    LET try_context == [context EXCEPT !.trying = TRUE]
        t == resolve_try_catch(st, try_body_idx, try_context,
                               Append(log, TryWalked(idx, context)))
    IN  IF t.context.tainted /\ ~context.trying
        THEN resolve_try_catch(t.store, catch_body_idx, context,
                               Append(Append(t.log, Decision(try_body_idx, context, TRUE)),
                                      CatchWalked(idx, context)))
        ELSE Walked(t.store, idx, [t.context EXCEPT !.trying = context.trying],
                    IF context.trying THEN t.log
                    ELSE Append(t.log, Decision(try_body_idx, context, FALSE)))

\* A plausible variant of the TryCatch arm: the catch is selected on a tainted
\* try whether or not the node lies in a try scope.
TryCatchArm_catches_while_trying(st, idx, try_body_idx, catch_body_idx, context, log) ==
    LET try_context == [context EXCEPT !.trying = TRUE]
        t == resolve_try_catch(st, try_body_idx, try_context,
                               Append(log, TryWalked(idx, context)))
    IN  IF t.context.tainted
        THEN resolve_try_catch(t.store, catch_body_idx, context,
                               Append(Append(t.log, Decision(try_body_idx, context, TRUE)),
                                      CatchWalked(idx, context)))
        ELSE Walked(t.store, t.idx, [t.context EXCEPT !.trying = context.trying],
                    IF context.trying THEN t.log
                    ELSE Append(t.log, Decision(try_body_idx, context, FALSE)))

\* The TryCatch arm
TryCatchArm(st, idx, try_body_idx, catch_body_idx, context, log) ==
    LET try_context == [context EXCEPT !.trying = TRUE]
        t == resolve_try_catch(st, try_body_idx, try_context,
                               Append(log, TryWalked(idx, context)))
    IN  IF t.context.tainted /\ ~context.trying
        THEN resolve_try_catch(t.store, catch_body_idx, context,
                               Append(Append(t.log, Decision(try_body_idx, context, TRUE)),
                                      CatchWalked(idx, context)))
        ELSE Walked(t.store, t.idx, [t.context EXCEPT !.trying = context.trying],
                    IF context.trying THEN t.log
                    ELSE Append(t.log, Decision(try_body_idx, context, FALSE)))

\* resolve_try_catch: match store.get(idx).clone()
resolve_try_catch(st, idx, context, log) ==
    LET document == StoreGet(st, idx)
        r == CASE document.kind = "Newline"  -> NewlineArm(st, idx, context, log)
               [] document.kind = "Text"     -> TextArm(st, idx, document.text, context, log)
               [] document.kind = "Nest"     ->
                      NestArm(st, idx, document.body, document.by, context, log)
               [] document.kind = "Flatten"  -> FlattenArm(st, document.body, context, log)
               [] document.kind = "List"     -> ListArm(st, document.children, context, log)
               [] document.kind = "TryCatch" ->
                      TryCatchArm(st, idx, document.try_body, document.catch_body,
                                  context, log)
    IN  [r EXCEPT !.log = Append(@, Returned(idx, context, r.idx, r.context))]

(***************************************************************************)
(* document.rs: print_resolved, on a writer that records what it is given. *)
(* The writer f holds the pieces written so far, one per write!/writeln!,  *)
(* the indentation level (increase_indent calls less decrease_indent       *)
(* calls), the width of one level, the number of writes the underlying     *)
(* fmt::Write accepts before it reports fmt::Error once (None: it never    *)
(* does), the writes attempted so far,                                     *)
(* and a history of the Nest nodes printed: the increment and the levels   *)
(* before, inside and after.  outcome is "Ok", "Err", or "panic" at a      *)
(* TryCatch.                                                               *)
(***************************************************************************)
NewWriter(indent, budget) ==
    [out |-> <<>>, level |-> 0, indent |-> indent, budget |-> budget, attempts |-> 0,
     nests |-> <<>>]
Printed(f, outcome) == [f |-> f, outcome |-> outcome]

\* write!(f, ..) / writeln!(f): the piece is taken, or the writer's error is
\* returned
Write(f, piece) ==
    IF f.budget # None /\ f.attempts = TheSome(f.budget)
    THEN Printed([f EXCEPT !.attempts = @ + 1], "Err")
    ELSE Printed([f EXCEPT !.out = Append(@, piece), !.attempts = @ + 1], "Ok")

NestPrinted(by, before, inside, after) ==
    [by |-> by, before |-> before, inside |-> inside, after |-> after]

RECURSIVE print_resolved(_, _, _, _)

RECURSIVE print_children_keeps_going(_, _, _, _)
\* A plausible variant of the List arm: for_each with the children's results
\* dropped.
print_children_keeps_going(st, f, children, flattened) ==
    IF children = <<>> THEN Printed(f, "Ok")
    ELSE LET r == print_resolved(st, f, Head(children), flattened)
         IN  print_children_keeps_going(st, r.f, Tail(children), flattened)

RECURSIVE print_children(_, _, _, _)
\* The List arm: try_for_each over the children
print_children(st, f, children, flattened) ==
    IF children = <<>> THEN Printed(f, "Ok")
    ELSE LET r == print_resolved(st, f, Head(children), flattened)
         IN  IF r.outcome # "Ok" THEN r
             ELSE print_children(st, r.f, Tail(children), flattened)

\* A plausible variant of the Nest arm: the body is printed unflattened.
PrintNestArm_unflattens(st, f, body_idx, by, flattened) ==
    LET step == IF by > 0 THEN 1 ELSE -1
        r == print_resolved(st, [f EXCEPT !.level = @ + step], body_idx, FALSE)
    IN  IF r.outcome # "Ok" THEN r
        ELSE Printed([r.f EXCEPT !.level = @ - step,
                                 !.nests = Append(@, NestPrinted(by, f.level, f.level + step,
                                                                 r.f.level - step))],
                     "Ok")

\* The Nest arm: increase_indent when by > 0, else decrease_indent; the body;
\* then the opposite call
PrintNestArm(st, f, body_idx, by, flattened) ==
    LET step == IF by > 0 THEN 1 ELSE -1
        r == print_resolved(st, [f EXCEPT !.level = @ + step], body_idx, flattened)
    IN  IF r.outcome # "Ok" THEN r
        ELSE Printed([r.f EXCEPT !.level = @ - step,
                                 !.nests = Append(@, NestPrinted(by, f.level, f.level + step,
                                                                 r.f.level - step))],
                     "Ok")

\* print_resolved: match store.get(idx)
print_resolved(st, f, idx, flattened) ==
    LET document == StoreGet(st, idx) IN
    CASE document.kind = "Newline" -> Write(f, IF flattened THEN " " ELSE "\n")
      [] document.kind = "Text" -> Write(f, document.text)
      [] document.kind = "Nest" ->
             PrintNestArm(st, f, document.body, document.by, flattened)
      [] document.kind = "Flatten" -> print_resolved(st, f, document.body, TRUE)
      [] document.kind = "List" -> print_children(st, f, document.children, flattened)
      [] document.kind = "TryCatch" -> Printed(f, "panic")

(***************************************************************************)
(* SpecTry: the builder fills the store (document_builder.rs), main runs   *)
(* resolve_try_catch from a fresh context, then print_resolved.            *)
(***************************************************************************)
TextOfLen(n) == [i \in 1..n |-> "a"]
Texts == { TextOfLen(n) : n \in 1..MaxTextLen }

\* Nest increments: the builder's indent, no increment, and a negative one
\* (Nest takes an isize).
NestBys == {-1, 0, 1}

Indices(st) == 0..(Len(st.documents) - 1)

ChildLists(st) ==
    UNION { [1..n -> Indices(st)] : n \in 0..MaxChildren }

\* The writes the underlying writer accepts before it fails: never failing (a
\* String, as in main), or failing after 0..MaxWrites writes.
WriteBudgets == {None} \cup { Some(n) : n \in 0..MaxWrites }

TryIdle == store = None /\ resolved = None /\ printed = None

TryInit ==
    /\ store = EmptyStore
    /\ resolved = None
    /\ printed = None

Building == resolved = None /\ Len(store.documents) < MaxDocs

\* DocumentBuilder::newline
BuilderNewline ==
    /\ Building
    /\ store' = StoreAdd(store, Newline).store
    /\ UNCHANGED <<resolved, printed>>
    /\ UNCHANGED notTry

\* DocumentBuilder::text
BuilderText ==
    /\ Building
    /\ \E text \in Texts : store' = StoreAdd(store, Text(text)).store
    /\ UNCHANGED <<resolved, printed>>
    /\ UNCHANGED notTry

\* DocumentBuilder::nest
BuilderNest ==
    /\ Building
    /\ \E body \in Indices(store), by \in NestBys :
           store' = StoreAdd(store, Nest(body, by)).store
    /\ UNCHANGED <<resolved, printed>>
    /\ UNCHANGED notTry

\* DocumentBuilder::flatten
BuilderFlatten ==
    /\ Building
    /\ \E body \in Indices(store) : store' = StoreAdd(store, Flatten(body)).store
    /\ UNCHANGED <<resolved, printed>>
    /\ UNCHANGED notTry

\* DocumentBuilder::try_catch
BuilderTryCatch ==
    /\ Building
    /\ \E try_body \in Indices(store), catch_body \in Indices(store) :
           store' = StoreAdd(store, TryCatch(try_body, catch_body)).store
    /\ UNCHANGED <<resolved, printed>>
    /\ UNCHANGED notTry

\* DocumentBuilder::list
BuilderList ==
    /\ Building
    /\ \E children \in ChildLists(store) : store' = StoreAdd(store, List(children)).store
    /\ UNCHANGED <<resolved, printed>>
    /\ UNCHANGED notTry

\* main: resolve_try_catch(&mut document_store, root_idx, &mut PrintingContext::new(max_width))
Resolve ==
    /\ resolved = None
    /\ \E root_idx \in Indices(store), max_width \in 1..MaxWidthLimit :
           LET r == resolve_try_catch(store, root_idx, PrintingContext_new(max_width), <<>>)
           IN  /\ store' = r.store
               /\ resolved' = Some([root_idx |-> root_idx, max_width |-> max_width,
                                    before |-> store.documents,
                                    new_root_idx |-> r.idx, context |-> r.context,
                                    log |-> r.log])
    /\ UNCHANGED printed
    /\ UNCHANGED notTry

\* main: print_resolved(&document_store, &mut f, new_root_idx, false)
PrintResolved ==
    /\ resolved # None
    /\ printed = None
    /\ \E indent \in 1..MaxIndentUnit, budget \in WriteBudgets :
           printed' = Some(print_resolved(store, NewWriter(indent, budget),
                                          TheSome(resolved).new_root_idx, FALSE))
    /\ UNCHANGED <<store, resolved>>
    /\ UNCHANGED notTry

(***************************************************************************)
(* SpecRuns: the builder fills the store and resolve_try_catch is run on   *)
(* it again and again, each run from a fresh context.                      *)
(***************************************************************************)
RunsInit ==
    /\ store = EmptyStore
    /\ resolved = None
    /\ printed = None
    /\ runs = 0

\* resolve_try_catch(&mut store, root_idx, &mut PrintingContext::new(max_width)),
\* its result dropped
ResolveRun ==
    /\ runs < MaxRuns
    /\ \E root_idx \in Indices(store), max_width \in 1..MaxWidthLimit :
           store' = resolve_try_catch(store, root_idx, PrintingContext_new(max_width),
                                      <<>>).store
    /\ runs' = runs + 1
    /\ UNCHANGED <<resolved, printed>>
    /\ UNCHANGED <<costVars, mergeVars, measureVars, add_log, splitVars, streamVars>>

(***************************************************************************)
(* pretty_expressive: document.rs and interned_map.rs.  An InternedKey is  *)
(* the zero-based position in the arena's store vector.                    *)
(***************************************************************************)
PeText(text)    == [kind |-> "Text", text |-> text]
PeNewline       == [kind |-> "Newline"]
Concat(children) == [kind |-> "Concat", children |-> children]
PeNest(add_indent_amount, child) ==
    [kind |-> "Nest", add_indent_amount |-> add_indent_amount, child |-> child]
PeFlatten(child) == [kind |-> "Flatten", child |-> child]
Union(a, b)      == [kind |-> "Union", a |-> a, b |-> b]

\* InternedMap { store, unique }, empty
EmptyMap == [store |-> <<>>, unique |-> <<>>]

\* InternedMap::add: unique.entry(value).or_insert_with_key(push, len - 1)
InternedMap_add(map, value) ==
    IF value \in DOMAIN map.unique
    THEN [map |-> map, key |-> map.unique[value]]
    ELSE LET stored == Append(map.store, value)
             index == Len(stored) - 1
         IN  [map |-> [store |-> stored, unique |-> (value :> index) @@ map.unique],
              key |-> index]

\* impl Index<InternedKey<T>> for InternedMap<T>
InternedMap_index(map, key) == map.store[key + 1]

\* InternedInfoMap::aligned_with: a store of the arena's length, its slots not
\* initialised, and no slot present.
Uninit == "uninit"
InternedInfoMap_aligned_with(backing_context) ==
    [store |-> [i \in 1..Len(backing_context.store) |-> Uninit],
     present |-> [i \in 1..Len(backing_context.store) |-> FALSE]]

\* InternedInfoMap::init
InternedInfoMap_init(self, key, value) ==
    [store |-> [self.store EXCEPT ![key + 1] = value],
     present |-> [self.present EXCEPT ![key + 1] = TRUE]]

\* InternedInfoMap::contains_key
InternedInfoMap_contains_key(self, key) == self.present[key + 1]

\* impl Index<InternedKey<T>> for InternedInfoMap (asserts the slot is present)
InternedInfoMap_index(self, key) == self.store[key + 1]

(***************************************************************************)
(* resolve.rs: ChoicelessContext, the measurer, over the cost Example3_5.  *)
(* A call answers with the measure (or a panic), the memo table and the    *)
(* arena as the call leaves them.                                          *)
(***************************************************************************)
PrintingContext(column, current_indent, should_flatten) ==
    [column |-> column, current_indent |-> current_indent,
     should_flatten |-> should_flatten]

Measured(measure, table, dc) ==
    [panicked |-> FALSE, measure |-> measure, measures |-> table, document_context |-> dc]
Panicked(table, dc) ==
    [panicked |-> TRUE, measure |-> None, measures |-> table, document_context |-> dc]

\* ChoicelessContext::measure_text
measure_text(cfg, printing_context, document, text) ==
    Measure(printing_context.column + Len(text),
            Example3_5_for_text(printing_context.column, Len(text), cfg.max_width),
            document)

\* ChoicelessContext::measure_newline
measure_newline(printing_context, document) ==
    Measure(printing_context.current_indent, NEWLINE_COST, document)

RECURSIVE sum_costs(_, _, _)
\* measure_concat: cost = children_measures[0].cost, then + each later cost
sum_costs(children_measures, i, cost) ==
    IF i > Len(children_measures) THEN cost
    ELSE sum_costs(children_measures, i + 1,
                   Example3_5_add(cost, children_measures[i].cost))

\* measure_concat after its loop: last().unwrap() panics on no children; the
\* costs are summed left to right and the Concat of the measured documents is
\* interned.
concat_measure(children_measures, table, dc) ==
    IF children_measures = <<>> THEN Panicked(table, dc)
    ELSE LET last_line_width == children_measures[Len(children_measures)].last_line_width
             cost == sum_costs(children_measures, 2, children_measures[1].cost)
             added == InternedMap_add(dc,
                          Concat([i \in 1..Len(children_measures) |->
                                      children_measures[i].document]))
         IN  Measured(Measure(last_line_width, cost, added.key), table, added.map)

RECURSIVE measure_document_memoized(_, _, _, _, _)

RECURSIVE measure_children_same_column(_, _, _, _, _, _)
measure_children_same_column(cfg, printing_context, dc, table, children, children_measures) ==
    IF children = <<>> THEN concat_measure(children_measures, table, dc)
    ELSE LET r == measure_document_memoized(cfg, printing_context, dc, table, Head(children))
         IN  IF r.panicked THEN r
             ELSE measure_children_same_column(cfg, printing_context,
                      r.document_context, r.measures, Tail(children),
                      Append(children_measures, r.measure))

RECURSIVE measure_children(_, _, _, _, _, _)
\* measure_concat: the loop over the children, each measured at the column the
\* one before it ended at
measure_children(cfg, printing_context, dc, table, children, children_measures) ==
    IF children = <<>> THEN concat_measure(children_measures, table, dc)
    ELSE LET r == measure_document_memoized(cfg, printing_context, dc, table, Head(children))
         IN  IF r.panicked THEN r
             ELSE measure_children(cfg,
                      [printing_context EXCEPT !.column = r.measure.last_line_width],
                      r.document_context, r.measures, Tail(children),
                      Append(children_measures, r.measure))

\* ChoicelessContext::measure_concat
measure_concat(cfg, printing_context, dc, table, children) ==
    measure_children(cfg, printing_context, dc, table, children, <<>>)

\* ChoicelessContext::measure_document_memoized
measure_document_memoized(cfg, printing_context, dc, table, document) ==
    IF InternedInfoMap_contains_key(table, document)
    THEN Measured(InternedInfoMap_index(table, document), table, dc)
    ELSE LET d == InternedMap_index(dc, document)
             r == CASE d.kind = "Text" ->
                           Measured(measure_text(cfg, printing_context, document, d.text),
                                    table, dc)
                    [] d.kind = "Newline" ->
                           Measured(measure_newline(printing_context, document), table, dc)
                    [] d.kind = "Concat" ->
                           measure_concat(cfg, printing_context, dc, table, d.children)
                    [] OTHER -> Panicked(table, dc)    \* Nest, Flatten, Union: todo!()
         IN  IF r.panicked THEN r
             ELSE [r EXCEPT !.measures = InternedInfoMap_init(r.measures, document, r.measure)]

(***************************************************************************)
(* resolve.rs: the resolver.  A call answers with a MeasureSet, or panics  *)
(* at a todo!().                                                           *)
(***************************************************************************)
Resolved(set) == [panicked |-> FALSE, set |-> set]
ResolvePanicked == [panicked |-> TRUE, set |-> None]

\* A plausible variant of resolve_text: the indent is not looked at.
resolve_text_ignores_indent(cfg, printing_context, document, text) ==
    LET measure == measure_text(cfg, printing_context, document, text)
    IN  IF printing_context.column + Len(text) <= cfg.max_width
        THEN Resolved(SetOf(<<measure>>))
        ELSE Resolved(TaintedOf(measure))

\* ChoicelessContext::resolve_text
resolve_text(cfg, printing_context, document, text) ==
    LET measure == measure_text(cfg, printing_context, document, text)
    IN  IF /\ printing_context.column + Len(text) <= cfg.max_width
           /\ printing_context.current_indent <= cfg.max_width
        THEN Resolved(SetOf(<<measure>>))
        ELSE Resolved(TaintedOf(measure))

\* ChoicelessContext::resolve_newline
resolve_newline(cfg, printing_context, document) ==
    LET measure == measure_newline(printing_context, document)
    IN  IF /\ printing_context.column <= cfg.max_width
           /\ printing_context.current_indent <= cfg.max_width
        THEN Resolved(SetOf(<<measure>>))
        ELSE Resolved(TaintedOf(measure))

\* ChoicelessContext::resolve_concat: todo!()
resolve_concat(cfg, printing_context, dc, document, children) == ResolvePanicked

\* ChoicelessContext::resolve_nest: todo!()
resolve_nest(cfg, printing_context, dc, document, add_indent_amount, child) ==
    ResolvePanicked

\* ChoicelessContext::resolve_document
resolve_document(cfg, dc, printing_context, document) ==
    LET d == InternedMap_index(dc, document)
    IN  CASE d.kind = "Text" -> resolve_text(cfg, printing_context, document, d.text)
          [] d.kind = "Newline" -> resolve_newline(cfg, printing_context, document)
          [] d.kind = "Concat" ->
                 resolve_concat(cfg, printing_context, dc, document, d.children)
          [] d.kind = "Nest" ->
                 resolve_nest(cfg, printing_context, dc, document,
                              d.add_indent_amount, d.child)
          [] OTHER -> ResolvePanicked    \* Flatten, Union: todo!()

(***************************************************************************)
(* SpecMeasure: documents are interned, a memo table is aligned with the   *)
(* arena, and measure_document_memoized is called on it.                   *)
(***************************************************************************)
PeIndices(map) == 0..(Len(map.store) - 1)

PeChildLists(map) == UNION { [1..n -> PeIndices(map)] : n \in 0..MaxChildren }

\* The documents a builder can intern next.
PeDocuments(map) ==
    {PeNewline}
    \cup { PeText(text) : text \in Texts }
    \cup { Concat(children) : children \in PeChildLists(map) }
    \cup { PeNest(1, child) : child \in PeIndices(map) }
    \cup { PeFlatten(child) : child \in PeIndices(map) }
    \cup { Union(a, b) : a \in PeIndices(map), b \in PeIndices(map) }

MeasureIdle ==
    /\ document_context = None /\ config = None /\ measures = None
    /\ calls = 0 /\ measure_out = None /\ resolve_out = None

MeasureInit ==
    /\ document_context = EmptyMap
    /\ config \in { [max_width |-> w, indent_amount |-> 1] : w \in 1..MaxWidthLimit }
    /\ measures = None
    /\ calls = 0
    /\ measure_out = None
    /\ resolve_out = None

\* InternedMap::add, called by a builder before the measurer exists
Intern ==
    /\ measures = None
    /\ Len(document_context.store) < MaxPeDocs
    /\ \E d \in PeDocuments(document_context) :
           document_context' = InternedMap_add(document_context, d).map
    /\ UNCHANGED <<config, measures, calls, measure_out, resolve_out>>
    /\ UNCHANGED notMeasure

\* ChoicelessContext { measures: InternedInfoMap::aligned_with(&document_context) }
Align ==
    /\ measures = None
    /\ document_context.store # <<>>
    /\ measures' = Some(InternedInfoMap_aligned_with(document_context))
    /\ UNCHANGED <<document_context, config, calls, measure_out, resolve_out>>
    /\ UNCHANGED notMeasure

HasPanicked ==
    \/ measure_out # None /\ TheSome(measure_out).answer.panicked
    \/ resolve_out # None /\ TheSome(resolve_out).answer.panicked

\* A call of measure_document_memoized
MeasureCall ==
    /\ measures # None
    /\ calls < MaxMeasureCalls
    /\ ~HasPanicked
    /\ \E document \in PeIndices(document_context),
          column \in 0..MaxColumn, current_indent \in 0..MaxIndent,
          should_flatten \in BOOLEAN :
           LET pc == PrintingContext(column, current_indent, should_flatten)
               r == measure_document_memoized(config, pc, document_context,
                                              TheSome(measures), document)
           IN  /\ measures' = Some(r.measures)
               /\ document_context' = r.document_context
               /\ measure_out' = Some([document |-> document, printing_context |-> pc,
                                       arena |-> document_context, answer |-> r])
    /\ calls' = calls + 1
    /\ UNCHANGED <<config, resolve_out>>
    /\ UNCHANGED notMeasure

\* A call of resolve_document
ResolveCall ==
    /\ measures # None
    /\ calls < MaxMeasureCalls
    /\ ~HasPanicked
    /\ \E document \in PeIndices(document_context),
          column \in 0..MaxColumn, current_indent \in 0..MaxIndent,
          should_flatten \in BOOLEAN :
           LET pc == PrintingContext(column, current_indent, should_flatten)
           IN  resolve_out' = Some([document |-> document, printing_context |-> pc,
                                    answer |-> resolve_document(config, document_context,
                                                                pc, document)])
    /\ calls' = calls + 1
    /\ UNCHANGED <<document_context, config, measures, measure_out>>
    /\ UNCHANGED notMeasure

(***************************************************************************)
(* SpecArena: add calls on an InternedMap and on an InternedDocumentStore, *)
(* each logged with the key it returned.                                   *)
(***************************************************************************)
\* The documents the builder of document_builder.rs can add next.
Documents(st) ==
    {Newline}
    \cup { Text(text) : text \in Texts }
    \cup { Nest(body, by) : body \in Indices(st), by \in NestBys }
    \cup { Flatten(body) : body \in Indices(st) }
    \cup { List(children) : children \in ChildLists(st) }
    \cup { TryCatch(t, c) : t \in Indices(st), c \in Indices(st) }

ArenaInit ==
    /\ document_context = EmptyMap
    /\ store = EmptyStore
    /\ add_log = <<>>

\* InternedMap::add
MapAdd ==
    /\ Len(add_log) < MaxAdds
    /\ \E d \in PeDocuments(document_context) :
           LET r == InternedMap_add(document_context, d)
           IN  /\ document_context' = r.map
               /\ add_log' = Append(add_log,
                                    [arena |-> "InternedMap", document |-> d, key |-> r.key])
    /\ UNCHANGED store
    /\ UNCHANGED notArena

\* InternedDocumentStore::add
DocumentStoreAdd ==
    /\ Len(add_log) < MaxAdds
    /\ \E d \in Documents(store) :
           LET r == StoreAdd(store, d)
           IN  /\ store' = r.store
               /\ add_log' = Append(add_log,
                                    [arena |-> "InternedDocumentStore", document |-> d,
                                     key |-> r.idx])
    /\ UNCHANGED document_context
    /\ UNCHANGED notArena

(***************************************************************************)
(* format_stream.rs, format_streams.rs: HighlightGroup, the theme, and the *)
(* stream a CommitableFormatStream wraps (inner: &mut dyn FormatStream),   *)
(* modelled after IndentFormatterStream.  The wrapped stream records the   *)
(* calls it receives (a process_code call with its text, its class and the *)
(* colour the theme gives it); its write number fail_on reports fmt::Error *)
(* (0: none does).                                                         *)
(***************************************************************************)
HighlightGroup ==
    {"None", "Identifier", "Keyword", "NonterminalPathSegment", "TerminalPathSegment",
     "TypeName", "Literal", "Symbol", "Attribute"}

\* Theme::color_for: the field of the theme a class is coloured with
color_for(code, highlight_group) ==
    CASE highlight_group = "None" -> "reset"
      [] highlight_group = "Identifier" -> "identifier"
      [] highlight_group = "Keyword" ->
            IF code = "self" THEN "self_related" ELSE "keyword"
      [] highlight_group = "NonterminalPathSegment" -> "nonterminal_path_segment"
      [] highlight_group = "TerminalPathSegment" -> "terminal_path_segment"
      [] highlight_group = "TypeName" ->
            IF code = "Self" THEN "self_related" ELSE "type_name"
      [] highlight_group = "Literal" -> "literal"
      [] highlight_group = "Symbol" -> "symbol"
      [] highlight_group = "Attribute" -> "attribute"

NewInner(fail_on) == [received |-> <<>>, writes |-> 0, fail_on |-> fail_on]

\* IndentFormatterStream::indent and dedent never fail
Inner_indent(i) ==
    [inner |-> [i EXCEPT !.received = Append(@, [kind |-> "indent"])], result |-> "Ok"]

Inner_dedent(i) ==
    [inner |-> [i EXCEPT !.received = Append(@, [kind |-> "dedent"])], result |-> "Ok"]

\* IndentFormatterStream::newline: writeln!(self.f).map_err(|_| fmt::Error)
Inner_newline(i) ==
    [inner  |-> [i EXCEPT !.received = Append(@, [kind |-> "newline"]),
                          !.writes = @ + 1],
     result |-> IF i.writes + 1 = i.fail_on THEN "Err" ELSE "Ok"]

\* IndentFormatterStream::process_code
Inner_process_code(i, code, highlight_group) ==
    [inner  |-> [i EXCEPT !.received =
                              Append(@, [kind |-> "process_code", code |-> code,
                                         highlight_group |-> highlight_group,
                                         color |-> color_for(code, highlight_group)]),
                          !.writes = @ + 1],
     result |-> IF i.writes + 1 = i.fail_on THEN "Err" ELSE "Ok"]

(***************************************************************************)
(* format_stream.rs: CommitableFormatStream.  A call takes and returns     *)
(* st = [f, inner, hist, result, value]: the stream, the stream it wraps,  *)
(* the history, the outcome ("Ok", "Err", or "panic") and the value        *)
(* returned.  Line numbers and mark indices are zero-based as in the code. *)
(* An arithmetic overflow panics when the build checks overflow            *)
(* (f.overflow_checks) and wraps modulo UsizeModulus when it does not.     *)
(*                                                                         *)
(* The history hist is no part of the program.  It holds the calls made so *)
(* far from outside (ops), the index handed out with each Mark ever issued *)
(* (issued, a Mark's identity being its position there), the Marks handed  *)
(* to the caller of push_mark from outside (held), and, aligned with       *)
(* f.marks, the identity of each outstanding mark (ids), the stream as it  *)
(* was when the mark was pushed (snaps) and whether only indent, dedent,   *)
(* newline and process_code were called since (pure); and, aligned with    *)
(* f.lines, the characters written to each line, indentation included      *)
(* (written).                                                              *)
(***************************************************************************)
new_with_config(indent, max_width, overflow_checks) ==
    [indent |-> indent, just_got_newline |-> FALSE, should_commit |-> TRUE,
     max_width |-> max_width, width_limit_failure |-> FALSE, indent_level |-> 0,
     lines |-> <<1>>, marks |-> <<>>, overflow_checks |-> overflow_checks]

NewHist ==
    [ops |-> 0, issued |-> <<>>, held |-> {}, ids |-> <<>>, snaps |-> <<>>,
     pure |-> <<>>, written |-> <<0>>]

Impure(h) == [h EXCEPT !.pure = [k \in DOMAIN @ |-> FALSE]]

\* current_width: self.lines[self.lines.len() - 1]
current_width(self) == self.lines[Len(self.lines)]

ConcreteMark(line, column, indent_level, should_commit, width_limit_failure) ==
    [line |-> line, column |-> column, indent_level |-> indent_level,
     should_commit |-> should_commit, width_limit_failure |-> width_limit_failure]

push_mark(st) ==
    LET self == st.f
        current_line == Len(self.lines) - 1
        mark == ConcreteMark(current_line, self.lines[current_line + 1], self.indent_level,
                             self.should_commit, self.width_limit_failure)
        h == Impure(st.hist)
    IN  [st EXCEPT !.f.marks = Append(@, mark),
                   !.value = Len(self.marks),
                   !.hist = [h EXCEPT !.issued = Append(@, Len(self.marks)),
                                      !.ids = Append(@, Len(h.issued) + 1),
                                      !.snaps = Append(@, [f |-> self,
                                                           written |-> h.written[current_line + 1]]),
                                      !.pure = Append(@, TRUE)]]

return_to_mark_keeps_later_marks(st, mark_index) ==
    LET self == st.f
        mark == self.marks[mark_index + 1]
        h == Impure(st.hist)
    IN  IF mark_index >= Len(self.marks) THEN [st EXCEPT !.result = "panic"]
        ELSE IF mark.line >= Len(self.lines) THEN [st EXCEPT !.result = "panic"]
        ELSE [st EXCEPT
                !.f = [self EXCEPT
                         !.lines = [SubSeq(@, 1, mark.line + 1) EXCEPT ![mark.line + 1] = mark.column],
                         !.indent_level = mark.indent_level,
                         !.should_commit = mark.should_commit,
                         !.width_limit_failure = mark.width_limit_failure],
                !.hist = [h EXCEPT
                            !.written = [SubSeq(@, 1, mark.line + 1) EXCEPT
                                            ![mark.line + 1] = h.snaps[mark_index + 1].written]]]

\* return_to_mark: panics when mark_index >= marks.len(), else drops the
\* marks from mark_index on and restores what the mark recorded.  The
\* indexing self.lines[line] panics when line is out of bounds.
return_to_mark(st, mark_index) ==
    LET self == st.f
        mark == self.marks[mark_index + 1]
        h == Impure(st.hist)
    IN  IF mark_index >= Len(self.marks) THEN [st EXCEPT !.result = "panic"]
        ELSE IF mark.line >= Len(self.lines) THEN [st EXCEPT !.result = "panic"]
        ELSE [st EXCEPT
                !.f = [self EXCEPT
                         !.marks = SubSeq(@, 1, mark_index),
                         !.lines = [SubSeq(@, 1, mark.line + 1) EXCEPT ![mark.line + 1] = mark.column],
                         !.indent_level = mark.indent_level,
                         !.should_commit = mark.should_commit,
                         !.width_limit_failure = mark.width_limit_failure],
                !.hist = [h EXCEPT
                            !.ids = SubSeq(@, 1, mark_index),
                            !.snaps = SubSeq(@, 1, mark_index),
                            !.pure = SubSeq(@, 1, mark_index),
                            !.written = [SubSeq(@, 1, mark.line + 1) EXCEPT
                                            ![mark.line + 1] = h.snaps[mark_index + 1].written]]]

enable_commit(st) ==
    [st EXCEPT !.f.should_commit = TRUE, !.f.width_limit_failure = FALSE,
               !.hist = Impure(@)]

disable_commit(st) ==
    [st EXCEPT !.f.should_commit = FALSE, !.hist = Impure(@)]

width_limit_failure(self) == self.width_limit_failure

\* the else-if branch shared by indent and process_code
NoteWidth(self) ==
    IF current_width(self) > self.max_width
    THEN [self EXCEPT !.width_limit_failure = TRUE] ELSE self

\* <CommitableFormatStream as FormatStream>::indent
Commitable_indent(st) ==
    LET level == st.f.indent_level + st.f.indent
        self == [st.f EXCEPT !.indent_level = level % UsizeModulus]
        call == Inner_indent(st.inner)
    IN  IF level >= UsizeModulus /\ st.f.overflow_checks THEN [st EXCEPT !.result = "panic"]
        ELSE IF self.should_commit
        THEN [st EXCEPT !.f = self, !.inner = call.inner, !.result = call.result]
        ELSE [st EXCEPT !.f = NoteWidth(self)]

\* <CommitableFormatStream as FormatStream>::dedent
Commitable_dedent(st) ==
    LET level == st.f.indent_level - st.f.indent
        self == [st.f EXCEPT !.indent_level = level % UsizeModulus]
        call == Inner_dedent(st.inner)
    IN  IF level < 0 /\ st.f.overflow_checks THEN [st EXCEPT !.result = "panic"]
        ELSE IF self.should_commit
        THEN [st EXCEPT !.f = self, !.inner = call.inner, !.result = call.result]
        ELSE [st EXCEPT !.f = self]

\* <CommitableFormatStream as FormatStream>::newline
Commitable_newline(st) ==
    LET self == [st.f EXCEPT !.just_got_newline = TRUE, !.lines = Append(@, 0)]
        h == [st.hist EXCEPT !.written = Append(@, 0)]
        call == Inner_newline(st.inner)
    IN  IF self.should_commit
        THEN [st EXCEPT !.f = self, !.hist = h, !.inner = call.inner, !.result = call.result]
        ELSE [st EXCEPT !.f = self, !.hist = h]

\* <CommitableFormatStream as FormatStream>::process_code
Commitable_process_code(st, code, highlight_group) ==
    LET last_line == Len(st.f.lines) - 1
        indented == IF st.f.just_got_newline
                    THEN st.f.lines[last_line + 1] + st.f.indent_level
                    ELSE st.f.lines[last_line + 1]
        width == (indented % UsizeModulus) + Len(code)
        self == [st.f EXCEPT !.lines[last_line + 1] = width % UsizeModulus,
                             !.just_got_newline = FALSE]
        h == [st.hist EXCEPT
                !.written[last_line + 1] =
                    @ + (IF @ = 0 THEN st.f.indent_level ELSE 0) + Len(code)]
        call == Inner_process_code(st.inner, code, highlight_group)
    IN  IF (indented >= UsizeModulus \/ width >= UsizeModulus) /\ st.f.overflow_checks
        THEN [st EXCEPT !.result = "panic"]
        ELSE IF self.should_commit
        THEN [st EXCEPT !.f = self, !.hist = h, !.inner = call.inner, !.result = call.result]
        ELSE [st EXCEPT !.f = NoteWidth(self), !.hist = h]

\* The provided methods of FormatStream.
identifier(st, name) == Commitable_process_code(st, name, "Identifier")

keyword(st, word) == Commitable_process_code(st, word, "Keyword")

nonterminal_segment(st, segment) ==
    Commitable_process_code(st, segment, "NonterminalPathSegment")

terminal_segment(st, segment) ==
    Commitable_process_code(st, segment, "TerminalPathSegment")

type_name(st, name) == Commitable_process_code(st, name, "TypeName")

literal(st, text) == Commitable_process_code(st, text, "Literal")

symbol(st, text) == Commitable_process_code(st, text, "Literal")

\* a ? between two calls: the second is made only when the first is Ok
Then(st, next(_)) == IF st.result = "Ok" THEN next(st) ELSE st

attribute(st, text) ==
    LET hash(s) == Commitable_process_code(s, "#", "Attribute")
        open(s) == symbol(s, "[")
        body(s) == Commitable_process_code(s, text, "Attribute")
        close(s) == symbol(s, "]")
    IN  Then(Then(Then(hash(st), open), body), close)

space(st) == Commitable_process_code(st, " ", "None")

(***************************************************************************)
(* render.rs: Context::try_commit.  The closure it is given is a sequence  *)
(* of calls on the context: indent, dedent, newline, process_code, and     *)
(* "try_commit": if !self.try_commit(attempt)? { otherwise }, the way      *)
(* render_unit and render_enclosed_auto use it.                            *)
(***************************************************************************)
RECURSIVE RunClosure(_, _)
RECURSIVE try_commit_stays_committing(_, _)
RECURSIVE try_commit(_, _)

\* one call of a closure
Step(st, op) ==
    CASE op.kind = "indent" -> Commitable_indent(st)
      [] op.kind = "dedent" -> Commitable_dedent(st)
      [] op.kind = "newline" -> Commitable_newline(st)
      [] op.kind = "process_code" -> Commitable_process_code(st, op.code, op.highlight_group)
      [] op.kind = "try_commit" ->
            LET tried == try_commit(st, op.attempt)
            IN  IF tried.result = "Ok" /\ ~tried.value
                THEN RunClosure(tried, op.otherwise) ELSE tried

\* the calls of a closure, each followed by ?
RunClosure(st, ops) ==
    IF ops = <<>> \/ st.result /= "Ok" THEN st
    ELSE RunClosure(Step(st, Head(ops)), Tail(ops))

try_commit_stays_committing(st, attempt) ==
    LET marked == push_mark(st)
        mark == marked.value
        first == RunClosure(marked, attempt)
        back == return_to_mark(first, mark)
        second == RunClosure(back, attempt)
    IN  IF first.result /= "Ok" THEN first
        ELSE IF width_limit_failure(first.f)
        THEN IF back.result = "Ok" THEN [back EXCEPT !.value = FALSE] ELSE back
        ELSE IF second.result = "Ok" THEN [second EXCEPT !.value = TRUE] ELSE second

try_commit(st, attempt) ==
    LET marked == push_mark(st)
        mark == marked.value
        first == RunClosure(disable_commit(marked), attempt)
        back == return_to_mark(first, mark)
        second == RunClosure(back, attempt)
    IN  IF first.result /= "Ok" THEN first
        ELSE IF width_limit_failure(first.f)
        THEN IF back.result = "Ok" THEN [back EXCEPT !.value = FALSE] ELSE back
        ELSE IF second.result = "Ok" THEN [second EXCEPT !.value = TRUE] ELSE second

(***************************************************************************)
(* SpecStream: calls on one CommitableFormatStream from outside.  SpecEmit:*)
(* the provided methods of FormatStream called on it.  stream_out is the   *)
(* last call: its name and arguments, the state before it, its outcome and *)
(* the value it returned.  A panic ends the program.                       *)
(***************************************************************************)
Codes == {"x", "fn"}
EmitTexts == {"x", "self", "Self"}
ProcessCodeGroups == {"Attribute"}

Op(kind) == [kind |-> kind]
ProcessCodeOp(code, highlight_group) ==
    [kind |-> "process_code", code |-> code, highlight_group |-> highlight_group]
TryCommitOp(attempt, otherwise) ==
    [kind |-> "try_commit", attempt |-> attempt, otherwise |-> otherwise]

\* the calls a closure is made of
Primitives ==
    {Op("indent"), Op("dedent"), Op("newline"), ProcessCodeOp("fn", "Keyword")}

FlatClosures ==
    UNION {[1..n -> Primitives] : n \in 1..MaxClosureLen}

\* closures that try a one-line layout and fall back to a tall one
NestingClosures ==
    {<<p, TryCommitOp(<<ProcessCodeOp("x", "Identifier")>>,
                      <<Op("newline"), ProcessCodeOp("x", "Identifier")>>)>> :
        p \in {Op("newline"), ProcessCodeOp("fn", "Keyword")}}

Closures == FlatClosures \cup NestingClosures

StreamIdle == stream = None /\ inner = None /\ stream_out = None /\ hist = None

StreamInit ==
    /\ \E indent \in 1..MaxIndentUnit, max_width \in 1..MaxWidthLimit,
          overflow_checks \in BOOLEAN :
          stream = new_with_config(indent, max_width, overflow_checks)
    /\ \E fail_on \in 0..MaxFailOn : inner = NewInner(fail_on)
    /\ stream_out = None
    /\ hist = NewHist

Running ==
    /\ stream /= None
    /\ hist.ops < MaxStreamOps
    /\ stream_out /= None => stream_out[1].result /= "panic"

Entry == [f |-> stream, inner |-> inner, hist |-> [hist EXCEPT !.ops = @ + 1],
          result |-> "Ok", value |-> None]

\* the call's effect on the variables
Returns(call, st) ==
    /\ stream' = st.f
    /\ inner' = st.inner
    /\ hist' = st.hist
    /\ stream_out' = Some([call |-> call, before |-> [f |-> stream, inner |-> inner, hist |-> hist],
                           result |-> st.result, value |-> st.value])
    /\ UNCHANGED notStream

Indent == Running /\ Returns(Op("indent"), Commitable_indent(Entry))

Dedent == Running /\ Returns(Op("dedent"), Commitable_dedent(Entry))

StreamNewline == Running /\ Returns(Op("newline"), Commitable_newline(Entry))

ProcessCode ==
    /\ Running
    /\ \E code \in Codes, highlight_group \in ProcessCodeGroups :
          Returns(ProcessCodeOp(code, highlight_group),
                  Commitable_process_code(Entry, code, highlight_group))

PushMark ==
    /\ Running
    /\ Len(stream.marks) < MaxMarks
    /\ LET st == push_mark(Entry)
       IN  Returns(Op("push_mark"), [st EXCEPT !.hist.held = @ \cup {Len(st.hist.issued)}])

\* any Mark the caller was handed so far may be given back, set or not
ReturnToMark ==
    /\ Running
    /\ \E id \in hist.held :
          Returns([kind |-> "return_to_mark", mark |-> hist.issued[id], id |-> id],
                  return_to_mark(Entry, hist.issued[id]))

EnableCommit == Running /\ Returns(Op("enable_commit"), enable_commit(Entry))

DisableCommit == Running /\ Returns(Op("disable_commit"), disable_commit(Entry))

TryCommit ==
    /\ Running
    /\ \E attempt \in Closures :
          Returns([kind |-> "try_commit", attempt |-> attempt], try_commit(Entry, attempt))

Emit(helper, text, st) ==
    hist.ops < MaxEmits /\ Returns([kind |-> helper, text |-> text], st)

Identifier == Running /\ \E text \in EmitTexts : Emit("identifier", text, identifier(Entry, text))

Keyword == Running /\ \E text \in EmitTexts : Emit("keyword", text, keyword(Entry, text))

NonterminalSegment ==
    Running /\ \E text \in EmitTexts :
        Emit("nonterminal_segment", text, nonterminal_segment(Entry, text))

TerminalSegment ==
    Running /\ \E text \in EmitTexts :
        Emit("terminal_segment", text, terminal_segment(Entry, text))

TypeName == Running /\ \E text \in EmitTexts : Emit("type_name", text, type_name(Entry, text))

Literal == Running /\ \E text \in EmitTexts : Emit("literal", text, literal(Entry, text))

Symbol == Running /\ \E text \in EmitTexts : Emit("symbol", text, symbol(Entry, text))

Attribute == Running /\ \E text \in EmitTexts : Emit("attribute", text, attribute(Entry, text))

Space == Running /\ Emit("space", " ", space(Entry))

(***************************************************************************)
(* The specifications.                                                     *)
(***************************************************************************)
InitCost == CostInit /\ MergeIdle /\ TryIdle /\ MeasureIdle /\ add_log = <<>> /\ SplitIdle /\ runs = 0
    /\ StreamIdle
NextCost == Compare
SpecCost == InitCost /\ [][NextCost]_vars

InitMerge == MergeInit /\ CostIdle /\ TryIdle /\ MeasureIdle /\ add_log = <<>> /\ SplitIdle /\ runs = 0
    /\ StreamIdle
NextMerge == Merge \/ Dominates \/ MergeSwapped
SpecMerge == InitMerge /\ [][NextMerge]_vars

InitTry == TryInit /\ CostIdle /\ MergeIdle /\ MeasureIdle /\ add_log = <<>> /\ SplitIdle /\ runs = 0
    /\ StreamIdle
NextTry ==
    \/ BuilderNewline \/ BuilderText \/ BuilderNest \/ BuilderFlatten
    \/ BuilderTryCatch \/ BuilderList
    \/ Resolve \/ PrintResolved
SpecTry == InitTry /\ [][NextTry]_vars

InitSplit == SplitInit /\ CostIdle /\ MergeIdle /\ TryIdle /\ MeasureIdle /\ add_log = <<>> /\ runs = 0
    /\ StreamIdle
NextSplit == ForText
SpecSplit == InitSplit /\ [][NextSplit]_vars

InitRuns ==
    /\ RunsInit /\ CostIdle /\ MergeIdle /\ MeasureIdle /\ add_log = <<>> /\ SplitIdle
    /\ StreamIdle
NextRuns ==
    \/ BuilderNewline \/ BuilderText \/ BuilderNest \/ BuilderFlatten
    \/ BuilderTryCatch \/ BuilderList
    \/ ResolveRun
SpecRuns == InitRuns /\ [][NextRuns]_vars

InitMeasure == MeasureInit /\ CostIdle /\ MergeIdle /\ TryIdle /\ add_log = <<>> /\ SplitIdle /\ runs = 0
    /\ StreamIdle
NextMeasure == Intern \/ Align \/ MeasureCall \/ ResolveCall
SpecMeasure == InitMeasure /\ [][NextMeasure]_vars

InitArena ==
    /\ ArenaInit /\ CostIdle /\ MergeIdle
    /\ resolved = None /\ printed = None
    /\ config = None /\ measures = None /\ calls = 0 /\ measure_out = None
    /\ resolve_out = None /\ SplitIdle /\ runs = 0
    /\ StreamIdle
NextArena == MapAdd \/ DocumentStoreAdd
SpecArena == InitArena /\ [][NextArena]_vars

InitStream ==
    /\ StreamInit /\ CostIdle /\ MergeIdle /\ TryIdle /\ MeasureIdle
    /\ add_log = <<>> /\ SplitIdle /\ runs = 0
NextStream ==
    \/ Indent \/ Dedent \/ StreamNewline \/ ProcessCode
    \/ PushMark \/ ReturnToMark \/ EnableCommit \/ DisableCommit
    \/ TryCommit
SpecStream == InitStream /\ [][NextStream]_vars

InitEmit ==
    /\ StreamInit /\ CostIdle /\ MergeIdle /\ TryIdle /\ MeasureIdle
    /\ add_log = <<>> /\ SplitIdle /\ runs = 0
NextEmit ==
    \/ Identifier \/ Keyword \/ NonterminalSegment \/ TerminalSegment
    \/ TypeName \/ Literal \/ Symbol \/ Attribute \/ Space
SpecEmit == InitEmit /\ [][NextEmit]_vars

(***************************************************************************)
(* Claims about the cost order (SpecCost).                                 *)
(***************************************************************************)

\* The lexicographic order on (overflow, height).
LexLe(a, b) == a[1] < b[1] \/ (a[1] = b[1] /\ a[2] <= b[2])

\* C3: the order of Example3_5 is the lexicographic total order on
\* (overflow, height): a <= b iff a.overflow < b.overflow, or the overflows are
\* equal and a.height <= b.height; cmp(a, a) is Equal, and <= is antisymmetric
\* and transitive.
C3_CmpIsLexicographic ==
    cmp_out # None =>
        LET r == TheSome(cmp_out) IN
        /\ r.le_ab <=> LexLe(cost_a, cost_b)
        /\ r.aa = "Equal"
        /\ (r.le_ab /\ r.le_ba) => cost_a = cost_b
        /\ (r.le_ab /\ r.le_bc) => r.le_ac

BothClean   == ms_a.tag = "Set" /\ ms_b.tag = "Set"
BothTainted == ms_a.tag = "Tainted" /\ ms_b.tag = "Tainted"

Pairs(ms) == { <<ms[i].last_line_width, ms[i].cost>> : i \in 1..Len(ms) }

\* The members of P that no other member of P dominates.
Frontier(P) ==
    { p \in P : ~ \E q \in P : q # p /\ q[1] <= p[1] /\ q[2] <= p[2] }

\* C2: the merge of two clean sets contains exactly the (last_line_width, cost)
\* pairs of their union that no other member of the union dominates.
C2_MergeIsParetoFrontier ==
    (merged # None /\ BothClean) =>
        Pairs(TheSome(merged).ms) = Frontier(Pairs(ms_a.ms) \cup Pairs(ms_b.ms))

C9_MergeKeepsCleanOrder ==
    (merged # None /\ BothClean) =>
        LET r == TheSome(merged) IN
        /\ r.tag = "Set"
        /\ Len(r.ms) >= 1
        /\ \A i \in 1..(Len(r.ms) - 1) :
               /\ r.ms[i].last_line_width > r.ms[i + 1].last_line_width
               /\ r.ms[i].cost < r.ms[i + 1].cost
        /\ \A i, j \in 1..Len(r.ms) :
               i # j => ~ ( /\ r.ms[i].last_line_width <= r.ms[j].last_line_width
                            /\ r.ms[i].cost <= r.ms[j].cost )

\* C9 witness: two clean sets of two or more measures have been merged, a head
\* was dropped on the way, and the result holds measures of both operands.
C9_Witness ==
    /\ merged # None /\ BothClean
    /\ Len(ms_a.ms) >= 2 /\ Len(ms_b.ms) >= 2
    /\ Len(TheSome(merged).ms) >= 3
    /\ Len(TheSome(merged).ms) < Len(ms_a.ms) + Len(ms_b.ms)
    /\ \E i, j \in 1..Len(TheSome(merged).ms) :
           TheSome(merged).ms[i].document # TheSome(merged).ms[j].document

\* The measure of lower cost; the first on a tie.
BetterOf(m1, m2) == IF m2.cost < m1.cost THEN m2 ELSE m1

\* C10 as claimed: two tainted sets merge to a tainted singleton holding the
\* measure of lower cost, whichever operand it came from; a tainted and a clean
\* set merge, in either order, to the clean set unchanged.
C10_TaintedMergeKeepsBetter ==
    merged # None =>
        LET r == TheSome(merged) IN
        /\ BothTainted =>
               /\ r.tag = "Tainted"
               /\ r.ms = <<BetterOf(Head(ms_a.ms), Head(ms_b.ms))>>
        /\ (ms_a.tag = "Tainted" /\ ms_b.tag = "Set") => r = ms_b
        /\ (ms_a.tag = "Set" /\ ms_b.tag = "Tainted") => r = ms_a

\* C10 as amended: two tainted sets merge to the first operand unchanged,
\* whatever the two costs are; a tainted and a clean set merge, in either
\* order, to the clean set unchanged.
C10_TaintedMergeKeepsSelf ==
    merged # None =>
        LET r == TheSome(merged) IN
        /\ BothTainted => r = ms_a
        /\ (ms_a.tag = "Tainted" /\ ms_b.tag = "Set") => r = ms_b
        /\ (ms_a.tag = "Set" /\ ms_b.tag = "Tainted") => r = ms_a

\* C10 witness: two tainted sets have been merged, the second of lower cost,
\* and the result is the first.
C10_Witness ==
    /\ merged # None /\ BothTainted
    /\ Head(ms_b.ms).cost < Head(ms_a.ms).cost
    /\ TheSome(merged) = ms_a

\* C11: for two clean measure sets, merge_with(S, T) and merge_with(T, S) hold
\* the same (last_line_width, cost) pairs.
C11_MergeCommutes ==
    (merged # None /\ merged_swapped # None /\ BothClean) =>
        Pairs(TheSome(merged).ms) = Pairs(TheSome(merged_swapped).ms)

\* C11 witness: two clean sets of two or more measures, neither result equal to
\* an operand, have been merged in both orders.
C11_Witness ==
    /\ merged # None /\ merged_swapped # None /\ BothClean
    /\ Len(ms_a.ms) >= 2 /\ Len(ms_b.ms) >= 2
    /\ Pairs(TheSome(merged).ms) \notin {Pairs(ms_a.ms), Pairs(ms_b.ms)}
    /\ \E i \in 1..Len(ms_a.ms), j \in 1..Len(ms_b.ms) :
           dominates(ms_a.ms[i], ms_b.ms[j]) /\ ~dominates(ms_b.ms[j], ms_a.ms[i])

(***************************************************************************)
(* Claims about the try/catch resolver and the store (SpecTry).            *)
(***************************************************************************)

RECURSIVE TryScopeWalk(_, _, _)
\* The columns reached by walking document idx inside a try scope, where every
\* nested TryCatch is walked through its try body: w holds the column, the
\* indent, the flatten flag, the width limit, and whether a column beyond the
\* limit has been reached.
TryScopeWalk(documents, idx, w) ==
    LET d == documents[idx + 1]
        at(column) == [w EXCEPT !.column = column,
                                !.breached = @ \/ column > w.max_width]
        over(children) ==
            LET RECURSIVE go(_, _)
                go(cs, v) == IF cs = <<>> THEN v
                             ELSE go(Tail(cs), TryScopeWalk(documents, Head(cs), v))
            IN  go(children, w)
    IN  CASE d.kind = "Newline" ->
                 at(IF w.flatten THEN (w.column + 1) % UsizeModulus ELSE w.indent)
          [] d.kind = "Text" -> at((w.column + Len(d.text)) % UsizeModulus)
          [] d.kind = "Nest" ->
                 [TryScopeWalk(documents, d.body,
                               [w EXCEPT !.indent = (@ + d.by) % UsizeModulus])
                      EXCEPT !.indent = w.indent]
          [] d.kind = "Flatten" ->
                 [TryScopeWalk(documents, d.body, [w EXCEPT !.flatten = TRUE])
                      EXCEPT !.flatten = w.flatten]
          [] d.kind = "List" -> over(d.children)
          [] d.kind = "TryCatch" -> TryScopeWalk(documents, d.try_body, w)

\* Some column reached while walking try body idx from context exceeds max_width.
TryScopeBreached(documents, idx, context) ==
    TryScopeWalk(documents, idx,
                 [column |-> context.column, indent |-> context.current_indent,
                  flatten |-> context.flatten, max_width |-> context.max_width,
                  breached |-> FALSE]).breached

\* C5: at a TryCatch met in a context that is not already trying, the resolver
\* returns the resolved catch branch if and only if some column reached while
\* walking the try body exceeds max_width, whatever was walked before.
C5_CatchIffTryBreached ==
    resolved # None =>
        \A i \in 1..Len(TheSome(resolved).log) :
            LET e == TheSome(resolved).log[i] IN
            e.kind = "TryCatch" =>
                (e.chose_catch <=> TryScopeBreached(store.documents, e.try_body, e.context))

RECURSIVE ReachesTryCatch(_, _)
\* A TryCatch node is reachable from document idx.
ReachesTryCatch(documents, idx) ==
    LET d == documents[idx + 1] IN
    CASE d.kind = "TryCatch" -> TRUE
      [] d.kind \in {"Nest", "Flatten"} -> ReachesTryCatch(documents, d.body)
      [] d.kind = "List" ->
             \E k \in 1..Len(d.children) : ReachesTryCatch(documents, d.children[k])
      [] OTHER -> FALSE

\* C6: no TryCatch node is reachable from the index resolve_try_catch returns,
\* and print_resolved on that index does not reach its TryCatch abort.
C6_NoTryCatchInResolved ==
    resolved # None =>
        /\ ~ReachesTryCatch(store.documents, TheSome(resolved).new_root_idx)
        /\ printed # None => TheSome(printed).outcome # "panic"

\* C6 witness: a document holding a TryCatch under a Nest, Flatten or List has
\* been resolved and its result printed.
C6_Witness ==
    /\ resolved # None /\ printed # None
    /\ StoreGet(store, TheSome(resolved).root_idx).kind # "TryCatch"
    /\ ReachesTryCatch(store.documents, TheSome(resolved).root_idx)
    /\ TheSome(printed).outcome = "Ok"

\* C8: every key add has returned, during building or inside the resolver,
\* still denotes the document it was returned for, and the documents stored
\* before a resolver run are unchanged after it.
C8_KeysStayValid ==
    /\ \A p \in store.issued :
           /\ p[2] \in Indices(store)
           /\ StoreGet(store, p[2]) = p[1]
    /\ resolved # None =>
           LET before == TheSome(resolved).before IN
           /\ Len(before) <= Len(store.documents)
           /\ \A i \in 1..Len(before) : store.documents[i] = before[i]

\* C8 witness: a resolver run has added documents to a store of three or more
\* documents, and its result is not its input.
C8_Witness ==
    /\ resolved # None
    /\ Len(TheSome(resolved).before) >= 3
    /\ Len(store.documents) > Len(TheSome(resolved).before)
    /\ TheSome(resolved).new_root_idx # TheSome(resolved).root_idx

\* C16: every Nest is walked with a current_indent no smaller than the
\* enclosing one, and current_indent + by never wraps around as a usize.
C16_NestOnlyIndents ==
    resolved # None =>
        \A i \in 1..Len(TheSome(resolved).log) :
            LET e == TheSome(resolved).log[i] IN
            e.kind = "Nest" =>
                /\ e.body_context.current_indent >= e.context.current_indent
                /\ e.body_context.current_indent = e.context.current_indent + e.by

\* C17: for k >= 0, the body of Nest(d, k) is printed k columns deeper than the
\* indentation around the Nest, and the indentation after the Nest is the one
\* before it.
C17_NestPrintsKDeeper ==
    printed # None =>
        LET f == TheSome(printed).f IN
        \A i \in 1..Len(f.nests) :
            LET e == f.nests[i] IN
            e.by >= 0 =>
                /\ (e.inside - e.before) * f.indent = e.by
                /\ e.after = e.before

RECURSIVE Render(_, _, _)
\* The pieces a resolved document is rendered to: a Newline is a space inside
\* a Flatten and a line break outside.
Render(documents, idx, inside_flatten) ==
    LET d == documents[idx + 1]
        RECURSIVE over(_)
        over(cs) == IF cs = <<>> THEN <<>>
                    ELSE Render(documents, Head(cs), inside_flatten) \o over(Tail(cs))
    IN  CASE d.kind = "Newline" -> << IF inside_flatten THEN " " ELSE "\n" >>
          [] d.kind = "Text" -> << d.text >>
          [] d.kind = "Nest" -> Render(documents, d.body, inside_flatten)
          [] d.kind = "Flatten" -> Render(documents, d.body, TRUE)
          [] d.kind = "List" -> over(d.children)
          [] OTHER -> <<>>

\* The column after walking a resolved document from column 0: a Newline adds
\* one column inside a Flatten and returns to the indent outside.
ColumnAfter(documents, idx, max_width) ==
    TryScopeWalk(documents, idx,
                 [column |-> 0, indent |-> 0, flatten |-> FALSE,
                  max_width |-> max_width, breached |-> FALSE]).column

\* C18: in the resolver and in the printer a Newline anywhere inside a Flatten
\* is one column / one space, a Flatten inside a Flatten changes nothing, and a
\* Newline after the Flatten breaks the line again.
C18_FlattenedNewlineIsSpace ==
    resolved # None =>
        LET r == TheSome(resolved) IN
        /\ r.context.column = ColumnAfter(store.documents, r.new_root_idx, r.max_width)
        /\ r.context.flatten = FALSE
        /\ (printed # None /\ TheSome(printed).outcome = "Ok") =>
               TheSome(printed).f.out = Render(store.documents, r.new_root_idx, FALSE)

\* C18 witness: a Newline under a Flatten under a Flatten, followed by a
\* Newline outside, has been resolved and printed as a space and a line break.
C18_Witness ==
    /\ resolved # None /\ printed # None
    /\ LET d == StoreGet(store, TheSome(resolved).new_root_idx) IN
       /\ d.kind = "List" /\ Len(d.children) = 2
       /\ StoreGet(store, d.children[1]).kind = "Flatten"
       /\ StoreGet(store, StoreGet(store, d.children[1]).body).kind = "Flatten"
       /\ StoreGet(store, d.children[2]).kind = "Newline"
    /\ TheSome(printed).f.out = <<" ", "\n">>
    /\ TheSome(resolved).context.column = 0

\* C19: when the writer reports an error, nothing is written after it and
\* print_resolved returns the error; otherwise the whole document is written.
C19_WriterErrorStops ==
    (printed # None /\ TheSome(printed).f.budget # None) =>
        LET p == TheSome(printed)
            budget == TheSome(p.f.budget)
            whole == Render(store.documents, TheSome(resolved).new_root_idx, FALSE)
        IN  IF Len(whole) > budget
            THEN /\ p.outcome = "Err"
                 /\ p.f.attempts = budget + 1
                 /\ p.f.out = SubSeq(whole, 1, budget)
            ELSE /\ p.outcome = "Ok"
                 /\ p.f.out = whole

\* C19 witness: the writer failed at the second of three or more writes, under
\* a List in a List, and one piece was written.
C19_Witness ==
    /\ printed # None
    /\ TheSome(printed).outcome = "Err"
    /\ Len(TheSome(printed).f.out) = 1
    /\ Len(Render(store.documents, TheSome(resolved).new_root_idx, FALSE)) >= 3

\* The child indices a stored document refers to.
ChildrenOf(d) ==
    CASE d.kind \in {"Nest", "Flatten"} -> {d.body}
      [] d.kind = "List" -> { d.children[i] : i \in 1..Len(d.children) }
      [] d.kind = "TryCatch" -> {d.try_body, d.catch_body}
      [] OTHER -> {}

\* C20 (SpecRuns): after builder operations and resolver runs, the document at
\* index i refers only to documents at indices below i.
C20_ChildrenComeFirst ==
    \A i \in 1..Len(store.documents) :
        \A c \in ChildrenOf(store.documents[i]) : c >= 0 /\ c < i - 1

\* C20 witness: two resolver runs have been made, and a document added by a
\* run, at index 4 or above, has children.
C20_Witness ==
    /\ runs >= 2
    /\ Len(store.documents) >= 5
    /\ ChildrenOf(store.documents[5]) # {}

ResolverLog == TheSome(resolved).log

\* the first entry after p that satisfies ends
FirstAfter(p, ends(_)) ==
    LET found == {q \in (p + 1)..Len(ResolverLog) : ends(ResolverLog[q])}
    IN  CHOOSE q \in found : \A r \in found : q <= r

\* the walk of the try body that starts at entry p ends where the catch of the
\* same node is walked or the call on the node returns
EndOfTry(p) ==
    LET ends(e) == \/ e.kind = "CatchWalked" /\ e.node = ResolverLog[p].node
                   \/ e.kind = "Returned" /\ e.idx = ResolverLog[p].node
    IN  FirstAfter(p, ends)

EndOfVisit(p) ==
    LET ends(e) == e.kind = "Returned" /\ e.idx = ResolverLog[p].node
    IN  FirstAfter(p, ends)

\* C24: while a try body is walked every nested TryCatch is in a try scope and
\* resolves to its try branch, overflowing or not, and no catch body is walked; an
\* overflow in the try body makes the outermost TryCatch, the only one that may,
\* select its catch; and once the catch of a TryCatch is walked its try body is
\* not walked again before the call on it returns.
C24_NoCatchInsideTry ==
    resolved # None =>
        \A p \in DOMAIN ResolverLog :
            ResolverLog[p].kind = "TryWalked" =>
                LET node == ResolverLog[p].node
                    context == ResolverLog[p].context
                    try_body == StoreGet(store, node).try_body
                    try_end == EndOfTry(p)
                    visit_end == EndOfVisit(p)
                IN  /\ \A k \in (p + 1)..(try_end - 1) :
                          /\ ResolverLog[k].kind /= "CatchWalked"
                          /\ ResolverLog[k].kind = "TryWalked" => ResolverLog[k].context.trying
                          /\ ResolverLog[k].kind = "Returned" =>
                                ResolverLog[k].context.trying /\ ResolverLog[k].new_context.trying
                    /\ context.trying =>
                          /\ ResolverLog[try_end].kind = "Returned"
                          /\ ResolverLog[try_end - 1].kind = "Returned"
                          /\ ResolverLog[try_end - 1].idx = try_body
                          /\ ResolverLog[try_end].new_idx = ResolverLog[try_end - 1].new_idx
                    /\ (~context.trying /\ TryScopeBreached(store.documents, try_body, context))
                          => ResolverLog[try_end].kind = "CatchWalked"
                    /\ ResolverLog[try_end].kind = "CatchWalked" =>
                          /\ ~context.trying
                          /\ \A k \in (try_end + 1)..(visit_end - 1) :
                                ~(ResolverLog[k].kind = "TryWalked" /\ ResolverLog[k].node = node)
                          /\ ResolverLog[visit_end].new_idx = ResolverLog[visit_end - 1].new_idx

\* a TryCatch nested in a try body overflowed and kept its try branch, and the
\* outermost TryCatch walked its catch
C24_Witness ==
    /\ resolved # None
    /\ \E p \in DOMAIN ResolverLog :
          /\ ResolverLog[p].kind = "TryWalked"
          /\ ResolverLog[p].context.trying
          /\ ~ResolverLog[p].context.tainted
          /\ ResolverLog[EndOfVisit(p)].new_context.tainted
          /\ \E q \in (p + 1)..Len(ResolverLog) : ResolverLog[q].kind = "CatchWalked"

\* C27: every call of resolve_try_catch returns the context with the max_width,
\* current_indent, flatten and trying it was given, and with the column reached
\* by walking the document it returns from the context it was given.
C27_ContextFrame ==
    resolved # None =>
        \A p \in DOMAIN ResolverLog :
            ResolverLog[p].kind = "Returned" =>
                LET context == ResolverLog[p].context
                    new_context == ResolverLog[p].new_context
                    walked == TryScopeWalk(store.documents, ResolverLog[p].new_idx,
                                  [column |-> context.column, indent |-> context.current_indent,
                                   flatten |-> context.flatten, max_width |-> context.max_width,
                                   breached |-> FALSE])
                IN  /\ new_context.max_width = context.max_width
                    /\ new_context.current_indent = context.current_indent
                    /\ new_context.flatten = context.flatten
                    /\ new_context.trying = context.trying
                    /\ new_context.column = walked.column

\* a call on a TryCatch returned its catch, walked under a Flatten, and the
\* column moved
C27_Witness ==
    /\ resolved # None
    /\ \E p, q, r \in DOMAIN ResolverLog :
          /\ p < q /\ q < r
          /\ ResolverLog[p].kind = "CatchWalked"
          /\ ResolverLog[q].kind = "Returned"
          /\ StoreGet(store, ResolverLog[q].idx).kind = "Flatten"
          /\ ~ResolverLog[q].context.flatten
          /\ ResolverLog[r].kind = "Returned"
          /\ ResolverLog[r].idx = ResolverLog[p].node
          /\ ResolverLog[r].new_context.column /= ResolverLog[r].context.column

(***************************************************************************)
(* Claims about the two arenas (SpecArena).                                *)
(***************************************************************************)
AddsOn(arena) == { i \in 1..Len(add_log) : add_log[i].arena = arena }

DistinctAdded(arena) == { add_log[i].document : i \in AddsOn(arena) }

\* C7: within one arena two add calls return the same key exactly when they
\* were passed equal documents, and the arena stores as many documents as
\* distinct documents were ever added to it.
C7_AddInterns ==
    /\ \A arena \in {"InternedMap", "InternedDocumentStore"} :
           \A i \in AddsOn(arena), j \in AddsOn(arena) :
               (add_log[i].key = add_log[j].key) <=> (add_log[i].document = add_log[j].document)
    /\ Len(document_context.store) = Cardinality(DistinctAdded("InternedMap"))
    /\ Len(store.documents) = Cardinality(DistinctAdded("InternedDocumentStore"))

\* C7 witness: each arena has been handed a document it already stored, and one
\* of them holds two distinct documents.
C7_Witness ==
    /\ \A arena \in {"InternedMap", "InternedDocumentStore"} :
           \E i \in AddsOn(arena), j \in AddsOn(arena) :
               i < j /\ add_log[i].document = add_log[j].document
    /\ Len(add_log) > Len(document_context.store) + Len(store.documents)

(***************************************************************************)
(* Claims about the measurer (SpecMeasure).                                *)
(***************************************************************************)
RECURSIVE measure_document(_, _, _, _)

RECURSIVE measure_children_afresh(_, _, _, _, _)
\* The children of a Concat measured with no memo table, each at the column
\* the one before it ended at.
measure_children_afresh(cfg, printing_context, dc, children, children_measures) ==
    IF children = <<>> THEN concat_measure(children_measures, None, dc)
    ELSE LET r == measure_document(cfg, printing_context, dc, Head(children))
         IN  IF r.panicked THEN r
             ELSE measure_children_afresh(cfg,
                      [printing_context EXCEPT !.column = r.measure.last_line_width],
                      r.document_context, Tail(children),
                      Append(children_measures, r.measure))

\* The unmemoised evaluation: the arms of measure_document_memoized with the
\* table neither read nor written.
measure_document(cfg, printing_context, dc, document) ==
    LET d == InternedMap_index(dc, document)
    IN  CASE d.kind = "Text" ->
                 Measured(measure_text(cfg, printing_context, document, d.text), None, dc)
          [] d.kind = "Newline" ->
                 Measured(measure_newline(printing_context, document), None, dc)
          [] d.kind = "Concat" ->
                 measure_children_afresh(cfg, printing_context, dc, d.children, <<>>)
          [] OTHER -> Panicked(None, dc)

\* C1: a call of measure_document_memoized answers as the unmemoised evaluation
\* of the same document under the same printing context does, whatever calls
\* were made on the memo table before.
C1_MemoizedEqualsUnmemoized ==
    measure_out # None =>
        LET call == TheSome(measure_out)
            afresh == measure_document(config, call.printing_context, call.arena,
                                       call.document)
        IN  /\ call.answer.panicked = afresh.panicked
            /\ call.answer.measure = afresh.measure

MeasuredDocument == InternedMap_index(TheSome(measure_out).arena, TheSome(measure_out).document)

RECURSIVE DescendantKeys(_, _)
\* the keys of the descendants of a document, in the order they are met
DescendantKeys(dc, document) ==
    LET d == InternedMap_index(dc, document)
        RECURSIVE below(_)
        below(children) ==
            IF children = <<>> THEN <<>>
            ELSE <<Head(children)>> \o DescendantKeys(dc, Head(children))
                     \o below(Tail(children))
    IN  CASE d.kind = "Concat" -> below(d.children)
          [] d.kind \in {"Nest", "Flatten"} -> below(<<d.child>>)
          [] d.kind = "Union" -> below(<<d.a, d.b>>)
          [] OTHER -> <<>>

RECURSIVE MeasuredLeftToRight(_, _, _, _)
\* the children measured one by one with no memo table, the first at the
\* context's column and each next one where the one before it ended; <<>>
\* when one of them has no measure
MeasuredLeftToRight(cfg, printing_context, dc, children) ==
    IF children = <<>> THEN <<>>
    ELSE LET r == measure_document(cfg, printing_context, dc, Head(children))
             rest == MeasuredLeftToRight(cfg,
                         [printing_context EXCEPT !.column = r.measure.last_line_width],
                         dc, Tail(children))
         IN  IF r.panicked \/ r.document_context /= dc THEN <<>>
             ELSE IF Len(rest) < Len(children) - 1 THEN <<>>
             ELSE <<r.measure>> \o rest

RECURSIVE CostSum(_)
CostSum(ms) ==
    IF Len(ms) = 1 THEN ms[1].cost
    ELSE Example3_5_add(CostSum(SubSeq(ms, 1, Len(ms) - 1)), ms[Len(ms)].cost)

\* a first call on a fresh memo table, of a Concat with children whose
\* descendants are Text, Newline and Concat documents under distinct keys,
\* each child having a measure
ChoicelessConcatMeasured ==
    /\ measure_out # None
    /\ calls = 1
    /\ MeasuredDocument.kind = "Concat"
    /\ MeasuredDocument.children /= <<>>
    /\ LET call == TheSome(measure_out)
           keys == DescendantKeys(call.arena, call.document)
       IN  /\ \A i \in DOMAIN keys :
                 InternedMap_index(call.arena, keys[i]).kind \in {"Text", "Newline", "Concat"}
           /\ \A i, j \in DOMAIN keys : i /= j => keys[i] /= keys[j]
           /\ MeasuredLeftToRight(config, call.printing_context, call.arena,
                                  MeasuredDocument.children) /= <<>>

C30_EmptyConcatHasMeasure ==
    (measure_out # None /\ MeasuredDocument.kind = "Concat"
        /\ MeasuredDocument.children = <<>>)
    => /\ ~TheSome(measure_out).answer.panicked
       /\ TheSome(measure_out).answer.measure.last_line_width =
              TheSome(measure_out).printing_context.column
       /\ TheSome(measure_out).answer.measure.cost = Example3_5(0, 0)

(***************************************************************************)
(* Claims about the resolver (SpecMeasure).                                *)
(***************************************************************************)
ResolvedDocument == InternedMap_index(document_context, TheSome(resolve_out).document)

\* C12: resolve_text answers with exactly one measure, (c + |s|,
\* for_text(c, |s|, W), the Text node itself), in a clean set when
\* c + |s| <= W and i <= W and in a tainted singleton otherwise.
C12_ResolveText ==
    (resolve_out # None /\ ResolvedDocument.kind = "Text") =>
        LET call == TheSome(resolve_out)
            pc == call.printing_context
            length == Len(ResolvedDocument.text)
            fits == pc.column + length <= config.max_width
                    /\ pc.current_indent <= config.max_width
        IN  /\ ~call.answer.panicked
            /\ call.answer.set.ms =
                   << Measure(pc.column + length,
                              Example3_5_for_text(pc.column, length, config.max_width),
                              call.document) >>
            /\ call.answer.set.tag = IF fits THEN "Set" ELSE "Tainted"

\* C12 witness: a Text that ends within max_width has been resolved at an
\* indent past max_width, and the answer is tainted.
C12_Witness ==
    /\ resolve_out # None /\ ResolvedDocument.kind = "Text"
    /\ TheSome(resolve_out).printing_context.column + Len(ResolvedDocument.text)
           <= config.max_width
    /\ TheSome(resolve_out).printing_context.current_indent > config.max_width
    /\ TheSome(resolve_out).answer.set.tag = "Tainted"

\* The measure the claim gives a Newline under printing context pc.
NewlineMeasure(pc, document) ==
    IF pc.should_flatten
    THEN Measure(pc.column + 1, Example3_5_for_text(pc.column, 1, config.max_width), document)
    ELSE Measure(pc.current_indent, NEWLINE_COST, document)

\* C13: a Newline resolved, or measured on a fresh memo table, under
\* should_flatten = true is measured as a one-character Text, (c + 1,
\* for_text(c, 1, W)); under should_flatten = false it is (current_indent,
\* NEWLINE_COST).
C13_FlattenedNewlineIsText ==
    /\ (resolve_out # None /\ ResolvedDocument.kind = "Newline") =>
           LET call == TheSome(resolve_out) IN
           /\ ~call.answer.panicked
           /\ call.answer.set.ms = << NewlineMeasure(call.printing_context, call.document) >>
    /\ (measure_out # None /\ calls = 1) =>
           LET call == TheSome(measure_out) IN
           InternedMap_index(call.arena, call.document).kind = "Newline" =>
               /\ ~call.answer.panicked
               /\ call.answer.measure = NewlineMeasure(call.printing_context, call.document)

RECURSIVE AcyclicBelow(_, _)
\* Every child key of the documents at keys 0..n-1 is smaller than its parent's.
AcyclicBelow(dc, n) ==
    IF n = 0 THEN TRUE
    ELSE LET d == dc.store[n]
             children == CASE d.kind = "Concat" -> { d.children[i] : i \in 1..Len(d.children) }
                           [] d.kind \in {"Nest", "Flatten"} -> {d.child}
                           [] d.kind = "Union" -> {d.a, d.b}
                           [] OTHER -> {}
         IN  (\A c \in children : c < n - 1) /\ AcyclicBelow(dc, n - 1)

\* C14: resolve_document answers every acyclic document with a measure set and
\* never aborts; a Union is answered with the merge of its two branches
\* resolved under the same context.
C14_ResolveDocumentTotal ==
    (resolve_out # None /\ AcyclicBelow(document_context, Len(document_context.store))) =>
        LET call == TheSome(resolve_out) IN
        /\ ~call.answer.panicked
        /\ ResolvedDocument.kind = "Union" =>
               LET a == resolve_document(config, document_context, call.printing_context,
                                         ResolvedDocument.a)
                   b == resolve_document(config, document_context, call.printing_context,
                                         ResolvedDocument.b)
               IN  ~a.panicked /\ ~b.panicked /\ call.answer.set = merge_with(a.set, b.set)


(***************************************************************************)
(* Claims about the commitable stream (SpecStream).                        *)
(***************************************************************************)
LastCall == stream_out[1]

\* the last call was return_to_mark, given a Mark that was set at the call
ReturnedToSetMark ==
    /\ stream_out /= None
    /\ LastCall.call.kind = "return_to_mark"
    /\ LastCall.call.mark < Len(LastCall.before.hist.ids)
    /\ LastCall.before.hist.ids[LastCall.call.mark + 1] = LastCall.call.id

\* the calls made after a return_to_mark, on the stream as it is and on
\* the stream as it was at push_mark
Continuations == {<<>>} \cup FlatClosures

After(self, ops) ==
    RunClosure([f |-> self, inner |-> inner, hist |-> hist, result |-> "Ok",
                value |-> None], ops)

Observed(st) == <<st.result, current_width(st.f), width_limit_failure(st.f)>>

\* C21: after m = push_mark(), calls of indent, dedent, newline and process_code,
\* and return_to_mark(m), every further sequence of calls yields the current_width
\* and the width_limit_failure it yields when made directly after push_mark.
C21_MarkRestoresWidthState ==
    (/\ ReturnedToSetMark
     /\ LastCall.result = "Ok"
     /\ LastCall.before.hist.pure[LastCall.call.mark + 1])
    => \A ops \in Continuations :
          Observed(After(stream, ops))
              = Observed(After(LastCall.before.hist.snaps[LastCall.call.mark + 1].f, ops))

\* C22: return_to_mark(m) on a set mark consumes m and every mark set after it,
\* and return_to_mark(m) panics whenever m is not set at the call (already
\* consumed), whatever marks were pushed in between.
C22_ReturnPanicsUnlessSet ==
    (stream_out /= None /\ LastCall.call.kind = "return_to_mark")
    => /\ ReturnedToSetMark =>
            /\ LastCall.result = "Ok"
            /\ Len(stream.marks) = LastCall.call.mark
            /\ hist.ids = SubSeq(LastCall.before.hist.ids, 1, LastCall.call.mark)
       /\ ~ReturnedToSetMark => LastCall.result = "panic"

\* C26: lines is never empty and every outstanding mark records a line index
\* below lines.len().
C26_MarksPointIntoLines ==
    stream /= None =>
        /\ stream.lines /= <<>>
        /\ \A k \in DOMAIN stream.marks : stream.marks[k].line < Len(stream.lines)

\* a return_to_mark that dropped a line and left an earlier mark outstanding
C26_Witness ==
    /\ ReturnedToSetMark
    /\ LastCall.result = "Ok"
    /\ stream.marks /= <<>>
    /\ Len(stream.lines) < Len(LastCall.before.f.lines)

\* C28: current_width() is the number of characters, indentation included,
\* written to the current line since the last newline: 0 on a fresh stream and
\* right after newline().
C28_WidthCountsCurrentLine ==
    stream /= None => current_width(stream) = hist.written[Len(hist.written)]

\* the calls the wrapped stream receives from a closure run while committing:
\* a nested try_commit sends its attempt or what is rendered instead
InnerCallOf(op) ==
    IF op.kind = "process_code"
    THEN [kind |-> "process_code", code |-> op.code, highlight_group |-> op.highlight_group,
          color |-> color_for(op.code, op.highlight_group)]
    ELSE [kind |-> op.kind]

RECURSIVE Flattenings(_)
Flattenings(ops) ==
    IF ops = <<>> THEN {<<>>}
    ELSE LET op == Head(ops)
             heads == IF op.kind = "try_commit"
                      THEN Flattenings(op.attempt) \cup Flattenings(op.otherwise)
                      ELSE {<<InnerCallOf(op)>>}
         IN  {h \o t : h \in heads, t \in Flattenings(Tail(ops))}

\* C25: no call made while commits are disabled reaches the wrapped stream; a
\* try_commit that returns false has sent it nothing and leaves the line count,
\* the current width, the indent level, the commit flag and the depth of the mark
\* stack as they were; a try_commit that returns true on a committing stream has
\* sent it the calls of the attempt once, in order.
C25_SpeculationIsInvisible ==
    stream_out /= None =>
        LET before == LastCall.before
            sent == SubSeq(inner.received, Len(before.inner.received) + 1,
                           Len(inner.received))
        IN  /\ SubSeq(inner.received, 1, Len(before.inner.received)) = before.inner.received
            /\ ~before.f.should_commit => sent = <<>>
            /\ (LastCall.call.kind = "try_commit" /\ LastCall.result = "Ok") =>
                  /\ LastCall.value = FALSE =>
                        /\ sent = <<>>
                        /\ Len(stream.lines) = Len(before.f.lines)
                        /\ current_width(stream) = current_width(before.f)
                        /\ stream.indent_level = before.f.indent_level
                        /\ stream.should_commit = before.f.should_commit
                        /\ Len(stream.marks) = Len(before.f.marks)
                  /\ (LastCall.value = TRUE /\ before.f.should_commit) =>
                        sent \in Flattenings(LastCall.call.attempt)

\* a try_commit on a committing stream returned true, its attempt having
\* tried a layout of its own
C25_Witness ==
    /\ stream_out /= None
    /\ LastCall.call.kind = "try_commit"
    /\ LastCall.result = "Ok"
    /\ LastCall.value = TRUE
    /\ LastCall.before.f.should_commit
    /\ \E k \in DOMAIN LastCall.call.attempt : LastCall.call.attempt[k].kind = "try_commit"
    /\ Len(inner.received) >= Len(LastCall.before.inner.received) + 2

(***************************************************************************)
(* Claims about the provided methods of FormatStream (SpecEmit).           *)
(***************************************************************************)
\* the class that names the role of each method
RoleClass ==
    [identifier |-> "Identifier", keyword |-> "Keyword",
     nonterminal_segment |-> "NonterminalPathSegment",
     terminal_segment |-> "TerminalPathSegment", type_name |-> "TypeName",
     literal |-> "Literal", symbol |-> "Symbol", space |-> "None"]

\* C29: identifier, keyword, nonterminal_segment, terminal_segment, type_name,
\* literal, symbol and space each pass their text to process_code with the class
\* of their own role: a symbol is sent with class Symbol, and only a literal with
\* class Literal.
C29_HelpersUseTheirClass ==
    (/\ stream_out /= None
     /\ LastCall.call.kind \in DOMAIN RoleClass
     /\ LastCall.before.f.should_commit
     /\ LastCall.result /= "panic")
    => /\ Len(inner.received) = Len(LastCall.before.inner.received) + 1
       /\ inner.received[Len(inner.received)] =
            [kind |-> "process_code", code |-> LastCall.call.text,
             highlight_group |-> RoleClass[LastCall.call.kind],
             color |-> color_for(LastCall.call.text, RoleClass[LastCall.call.kind])]

====
